---- MODULE Spec2Model ----
(***************************************************************************)
(* A Trader instance of one of the eight source variants (Run2.0.py,       *)
(* run.py, run8.py, Run4.py, run3.py, run5.py, Run6.py, Run7.py) driven    *)
(* tick by tick by the exchange.  The variable `engine` names the variant  *)
(* whose Trader class was instantiated; the other variables are the        *)
(* instance's fields and the input and output of the most recent tick.     *)
(*                                                                         *)
(* Number representation.  Prices and quantities are integers, as in the   *)
(* exchange's datamodel.  A Python float that is a rational function of    *)
(* them is kept exact as a fraction [n |-> numerator, d |-> denominator],  *)
(* d > 0.  Mid-prices are kept doubled (best_bid + best_ask).  Volatility  *)
(* is kept in thousandths.  Irrational quantities (log, exp, sqrt, x^1.5)  *)
(* are either tabulated in thousandths or drawn nondeterministically from  *)
(* the set of outcomes described where they are used.                      *)
(***************************************************************************)
EXTENDS Integers, Sequences, FiniteSets, TLC

VARIABLES
    engine,           \* which source file's Trader this instance is
    historical_data,  \* self.historical_data: product -> [prices, spreads, volumes]
    volatility,       \* self.volatility: product -> thousandths
    fair_values,      \* self.fair_values: product -> fraction
    history,          \* Run7 self.history: product -> sequence of doubled prices
    pnl,              \* Run7 self.pnl
    state,            \* the TradingState passed to the most recent run()
    result,           \* the order mapping the most recent run() returned
    conversions,      \* the conversion count the most recent run() returned
    voucher_fair,     \* the local fair_value of each voucher the most recent run() valued
    ran,              \* TRUE once run() has been called
    phase,            \* how far the call of Run2.0 run() in progress has got
    basket_arb_orders \* Run2.0 run(): the local basket_arb_orders of the call in progress

vars == <<engine, historical_data, volatility, fair_values, history, pnl,
          state, result, conversions, voucher_fair, ran, phase, basket_arb_orders>>

-----------------------------------------------------------------------------
(* Python dictionaries are functions with a finite domain. *)

EmptyDict == [k \in {} |-> 0]

Get(dict, key, default) == IF key \in DOMAIN dict THEN dict[key] ELSE default

Put(dict, key, value) ==
    [k \in DOMAIN dict \cup {key} |-> IF k = key THEN value ELSE dict[k]]

Max(S) == CHOOSE x \in S : \A y \in S : y <= x

Min(S) == CHOOSE x \in S : \A y \in S : x <= y

Abs(x) == IF x < 0 THEN -x ELSE x

RECURSIVE SumOver(_, _)
SumOver(f, S) ==
    IF S = {} THEN 0
    ELSE LET k == CHOOSE k \in S : TRUE IN f[k] + SumOver(f, S \ {k})

RECURSIVE SumSeq(_)
SumSeq(s) == IF s = <<>> THEN 0 ELSE Head(s) + SumSeq(Tail(s))

Frac(n, d) == [n |-> n, d |-> d]

FracEq(a, b) == a.n * b.d = b.n * a.d

(* Python's round() of the rational num/den (den > 0): nearest integer,    *)
(* ties to the even neighbour.                                             *)
RoundHalfEven(num, den) ==
    LET q == num \div den
        r == num % den
    IN  IF 2 * r < den THEN q
        ELSE IF 2 * r > den THEN q + 1
        ELSE IF q % 2 = 0 THEN q ELSE q + 1

Order(symbol, price, quantity) ==
    [symbol |-> symbol, price |-> price, quantity |-> quantity]

OrderDepth(buy_orders, sell_orders) ==
    [buy_orders |-> buy_orders, sell_orders |-> sell_orders]

TradingState(timestamp, order_depths, position) ==
    [timestamp |-> timestamp, order_depths |-> order_depths, position |-> position]

-----------------------------------------------------------------------------
(* Run2.0.py and run.py: history tracker and fair values.                  *)

Run2_position_limits ==
    [p \in {"PEARLS", "BANANAS", "CROISSANT", "JAM", "DJEMBE",
            "PICNIC_BASKET1", "PICNIC_BASKET2"} |->
        CASE p = "PEARLS" -> 20
          [] p = "BANANAS" -> 20
          [] p = "CROISSANT" -> 250
          [] p = "JAM" -> 350
          [] p = "DJEMBE" -> 60
          [] p = "PICNIC_BASKET1" -> 60
          [] p = "PICNIC_BASKET2" -> 100]

RunPy_position_limits == [p \in {"PEARLS", "BANANAS"} |-> 20]

DefaultVolatility == 100   \* 0.1

initialize_product_state == [prices |-> <<>>, spreads |-> <<>>, volumes |-> <<>>]

BestBidOrZero(order_depth) ==
    IF DOMAIN order_depth.buy_orders # {} THEN Max(DOMAIN order_depth.buy_orders) ELSE 0

BestAskOrZero(order_depth) ==
    IF DOMAIN order_depth.sell_orders # {} THEN Min(DOMAIN order_depth.sell_orders) ELSE 0

TotalVolume(order_depth) ==
    SumOver([p \in DOMAIN order_depth.buy_orders |-> Abs(order_depth.buy_orders[p])],
            DOMAIN order_depth.buy_orders)
    + SumOver([p \in DOMAIN order_depth.sell_orders |-> Abs(order_depth.sell_orders[p])],
              DOMAIN order_depth.sell_orders)

(* update_historical_data with the volume append moved inside the          *)
(* two-sided branch.                                                       *)
UpdateProductHistory_volume_when_two_sided(h, order_depth) ==
    LET best_bid == BestBidOrZero(order_depth)
        best_ask == BestAskOrZero(order_depth)
    IN  IF best_bid # 0 /\ best_ask # 0
        THEN [h EXCEPT !.prices = Append(@, best_bid + best_ask),
                       !.spreads = Append(@, best_ask - best_bid),
                       !.volumes = Append(@, TotalVolume(order_depth))]
        ELSE h

(* update_historical_data that records a mid-price and a spread on every   *)
(* tick, with 0 standing for the best price of an empty side.              *)
UpdateProductHistory_mid_every_tick(h, order_depth) ==
    [h EXCEPT !.prices = Append(@, BestBidOrZero(order_depth) + BestAskOrZero(order_depth)),
              !.spreads = Append(@, BestAskOrZero(order_depth) - BestBidOrZero(order_depth)),
              !.volumes = Append(@, TotalVolume(order_depth))]

(* One iteration of the loop of update_historical_data, without the        *)
(* volatility assignment: prices hold the doubled mid-price.               *)
UpdateProductHistory(h, order_depth) ==
    LET best_bid == BestBidOrZero(order_depth)
        best_ask == BestAskOrZero(order_depth)
        h1 == IF best_bid # 0 /\ best_ask # 0
              THEN [h EXCEPT !.prices = Append(@, best_bid + best_ask),
                             !.spreads = Append(@, best_ask - best_bid)]
              ELSE h
    IN  [h1 EXCEPT !.volumes = Append(@, TotalVolume(order_depth))]

update_historical_data(hd, st) ==
    [p \in DOMAIN hd \cup DOMAIN st.order_depths |->
        IF p \in DOMAIN st.order_depths
        THEN UpdateProductHistory(Get(hd, p, initialize_product_state), st.order_depths[p])
        ELSE hd[p]]

(* np.std(np.diff(np.log(prices))) is 0 exactly when all log-returns are   *)
(* equal, i.e. when consecutive price ratios are equal.                    *)
ConstantReturns(prices) ==
    \A i \in 2..(Len(prices) - 1) : prices[i] * prices[i] = prices[i-1] * prices[i+1]

(* The positive values the annualised volatility may take when it is not   *)
(* zero (thousandths): the logarithm is not computed, every listed value   *)
(* is treated as possible.                                                 *)
PositiveVolatilities == {100, 1000}

(* Values self.volatility[product] may hold after update_historical_data.  *)
VolatilityOutcomes(old, h, order_depth) ==
    IF BestBidOrZero(order_depth) # 0 /\ BestAskOrZero(order_depth) # 0
       /\ Len(h.prices) > 1
    THEN IF ConstantReturns(h.prices) THEN {0} ELSE PositiveVolatilities
    ELSE {old}

(* A volume-weighted average that adds the signed ask quantities.           *)
calculate_vwap_signed(order_depth) ==
    LET bo == order_depth.buy_orders
        so == order_depth.sell_orders
        total_value == SumOver([p \in DOMAIN bo |-> p * bo[p]], DOMAIN bo)
                       + SumOver([p \in DOMAIN so |-> p * so[p]], DOMAIN so)
        total_volume == SumOver(bo, DOMAIN bo) + SumOver(so, DOMAIN so)
    IN  IF total_volume # 0 THEN Frac(total_value, total_volume) ELSE Frac(0, 1)

calculate_vwap(order_depth) ==
    LET bo == order_depth.buy_orders
        so == order_depth.sell_orders
        total_value == SumOver([p \in DOMAIN bo |-> p * bo[p]], DOMAIN bo)
                       + SumOver([p \in DOMAIN so |-> p * Abs(so[p])], DOMAIN so)
        total_volume == SumOver(bo, DOMAIN bo)
                        + SumOver([p \in DOMAIN so |-> Abs(so[p])], DOMAIN so)
    IN  IF total_volume # 0 THEN Frac(total_value, total_volume) ELSE Frac(0, 1)

calculate_pearls_fair_value == Frac(10000, 1)

SeqRange(s) == {s[i] : i \in 1..Len(s)}

(* Values np.dot(prices, weights) may take for strictly positive weights   *)
(* that sum to 1 and are not all equal (exponential weights): the price    *)
(* itself when all prices are equal, otherwise a value strictly between    *)
(* the smallest and the largest price (the two half-unit grid points next  *)
(* to the extremes stand for that open interval).                          *)
WeightedAverageOutcomes(prices) ==
    LET lo == Min(SeqRange(prices))
        hi == Max(SeqRange(prices))
    IN  IF lo = hi THEN {Frac(lo, 2)}
        ELSE IF hi - lo = 1 THEN {Frac(lo + hi, 4)}
        ELSE {Frac(lo + 1, 2), Frac(hi - 1, 2)}

(* Run2.0: uniform weights below 5 observations, exponential from 5 on.    *)
Run2_bananas_outcomes(h, order_depth) ==
    IF h.prices = <<>> THEN {calculate_vwap(order_depth)}
    ELSE IF Len(h.prices) < 5 THEN {Frac(SumSeq(h.prices), 2 * Len(h.prices))}
    ELSE WeightedAverageOutcomes(h.prices)

(* run.py: exponential weights for every length.                           *)
RunPy_bananas_outcomes(h, order_depth) ==
    IF h.prices = <<>> THEN {calculate_vwap(order_depth)}
    ELSE WeightedAverageOutcomes(h.prices)

basket_components ==
    [b \in {"PICNIC_BASKET1", "PICNIC_BASKET2"} |->
        IF b = "PICNIC_BASKET1"
        THEN ("CROISSANT" :> 6) @@ ("JAM" :> 3) @@ ("DJEMBE" :> 1)
        ELSE ("CROISSANT" :> 4) @@ ("JAM" :> 2)]

(* calculate_basket_fair_values that keeps a basket value already stored.   *)
calculate_basket_fair_values_cached(fv) ==
    LET fv1 == IF {"CROISSANT", "JAM", "DJEMBE"} \subseteq DOMAIN fv
                  /\ "PICNIC_BASKET1" \notin DOMAIN fv
               THEN Put(fv, "PICNIC_BASKET1",
                        Frac(6 * fv["CROISSANT"].n * fv["JAM"].d * fv["DJEMBE"].d
                             + 3 * fv["JAM"].n * fv["CROISSANT"].d * fv["DJEMBE"].d
                             + fv["DJEMBE"].n * fv["CROISSANT"].d * fv["JAM"].d,
                             fv["CROISSANT"].d * fv["JAM"].d * fv["DJEMBE"].d))
               ELSE fv
    IN  IF {"CROISSANT", "JAM"} \subseteq DOMAIN fv1 /\ "PICNIC_BASKET2" \notin DOMAIN fv1
        THEN Put(fv1, "PICNIC_BASKET2",
                 Frac(4 * fv1["CROISSANT"].n * fv1["JAM"].d
                      + 2 * fv1["JAM"].n * fv1["CROISSANT"].d,
                      fv1["CROISSANT"].d * fv1["JAM"].d))
        ELSE fv1

(* calculate_basket_fair_values without the PICNIC_BASKET2 assignment.      *)
calculate_basket_fair_values_basket1_only(fv) ==
    IF {"CROISSANT", "JAM", "DJEMBE"} \subseteq DOMAIN fv
    THEN Put(fv, "PICNIC_BASKET1",
             Frac(6 * fv["CROISSANT"].n * fv["JAM"].d * fv["DJEMBE"].d
                  + 3 * fv["JAM"].n * fv["CROISSANT"].d * fv["DJEMBE"].d
                  + fv["DJEMBE"].n * fv["CROISSANT"].d * fv["JAM"].d,
                  fv["CROISSANT"].d * fv["JAM"].d * fv["DJEMBE"].d))
    ELSE fv

(* calculate_basket_fair_values: every test is on the keys self.fair_values *)
(* holds, whenever they were stored.                                        *)
calculate_basket_fair_values(fv) ==
    LET fv1 == IF {"CROISSANT", "JAM", "DJEMBE"} \subseteq DOMAIN fv
               THEN Put(fv, "PICNIC_BASKET1",
                        Frac(6 * fv["CROISSANT"].n * fv["JAM"].d * fv["DJEMBE"].d
                             + 3 * fv["JAM"].n * fv["CROISSANT"].d * fv["DJEMBE"].d
                             + fv["DJEMBE"].n * fv["CROISSANT"].d * fv["JAM"].d,
                             fv["CROISSANT"].d * fv["JAM"].d * fv["DJEMBE"].d))
               ELSE fv
    IN  IF {"CROISSANT", "JAM"} \subseteq DOMAIN fv1
        THEN Put(fv1, "PICNIC_BASKET2",
                 Frac(4 * fv1["CROISSANT"].n * fv1["JAM"].d
                      + 2 * fv1["JAM"].n * fv1["CROISSANT"].d,
                      fv1["CROISSANT"].d * fv1["JAM"].d))
        ELSE fv1

(* generate_basket_arbitrage_orders, lines 168-172 and 186-189: the value   *)
(* of the components a basket is compared against.                          *)
components_value(fv, b) ==
    IF b = "PICNIC_BASKET1"
    THEN Frac(6 * fv["CROISSANT"].n * fv["JAM"].d * fv["DJEMBE"].d
              + 3 * fv["JAM"].n * fv["CROISSANT"].d * fv["DJEMBE"].d
              + fv["DJEMBE"].n * fv["CROISSANT"].d * fv["JAM"].d,
              fv["CROISSANT"].d * fv["JAM"].d * fv["DJEMBE"].d)
    ELSE Frac(4 * fv["CROISSANT"].n * fv["JAM"].d + 2 * fv["JAM"].n * fv["CROISSANT"].d,
              fv["CROISSANT"].d * fv["JAM"].d)

(* generate_basket_arbitrage_orders, lines 166-181 and 184-198: the branch  *)
(* taken for basket b.                                                      *)
basket_arbitrage_branch(fv, b) ==
    IF ~(b \in DOMAIN fv /\ DOMAIN basket_components[b] \subseteq DOMAIN fv) THEN "not evaluated"
    ELSE IF 1000 * fv[b].n * components_value(fv, b).d
              > 1005 * components_value(fv, b).n * fv[b].d THEN "overpriced"
    ELSE IF 1000 * fv[b].n * components_value(fv, b).d
              < 995 * components_value(fv, b).n * fv[b].d THEN "underpriced"
    ELSE "none"

(* generate_basket_arbitrage_orders: both branches of both comparisons are  *)
(* `pass`; the mapping returned is always empty.                            *)
generate_basket_arbitrage_orders(fv) == EmptyDict

(* Run2.0 generate_orders, lines 242-252: sizes of the two quotes.          *)
Run2_base_size(vol) ==
    LET raw == 1000 \div (100 + vol)   \* int(10 / (1 + vol * 10))
        floored == IF raw > 2 THEN raw ELSE 2
    IN  IF floored < 10 THEN floored ELSE 10

(* The buy size without the min(base_size, max_buy) clamp of line 244.      *)
Run2_buy_size_unclamped(vol, current_position, position_limit) ==
    LET base_size == Run2_base_size(vol)
    IN  IF 10 * current_position > 6 * position_limit
        THEN (IF base_size \div 2 > 1 THEN base_size \div 2 ELSE 1)
        ELSE base_size

(* The buy size of line 244 alone, without the halving of lines 248-250.    *)
Run2_buy_size_unthrottled(vol, current_position, position_limit) ==
    LET max_buy == position_limit - current_position
        base_size == Run2_base_size(vol)
    IN  IF base_size < max_buy THEN base_size ELSE max_buy

Run2_buy_size(vol, current_position, position_limit) ==
    LET max_buy == position_limit - current_position
        base_size == Run2_base_size(vol)
        buy_size == IF base_size < max_buy THEN base_size ELSE max_buy
    IN  IF 10 * current_position > 6 * position_limit
        THEN (IF buy_size \div 2 > 1 THEN buy_size \div 2 ELSE 1)
        ELSE buy_size

Run2_sell_size(vol, current_position, position_limit) ==
    LET max_sell == position_limit + current_position
        base_size == Run2_base_size(vol)
        sell_size == IF base_size < max_sell THEN base_size ELSE max_sell
    IN  IF 10 * current_position > 6 * position_limit
        THEN sell_size
        ELSE IF 10 * current_position < -6 * position_limit
        THEN (IF sell_size \div 2 > 1 THEN sell_size \div 2 ELSE 1)
        ELSE sell_size

(* Run2.0 generate_orders, lines 223-258: the market-making quotes.         *)
(* price_adjustment = volatility * 0.7, times 0.8 when the last volume      *)
(* exceeds 100.                                                             *)
Run2_market_making(product, order_depth, fair_value, current_position, position_limit, h, vol) ==
    LET best_bid == BestBidOrZero(order_depth)
        best_ask == BestAskOrZero(order_depth)
        max_buy == position_limit - current_position
        max_sell == position_limit + current_position
        high == h.volumes[Len(h.volumes)] > 100
        scale == IF high THEN 12500 ELSE 10000
        adj == 7 * vol * fair_value.d
        raw_bid == RoundHalfEven(fair_value.n * scale - adj, scale * fair_value.d)
        raw_ask == RoundHalfEven(fair_value.n * scale + adj, scale * fair_value.d)
        my_bid == IF raw_bid < best_bid + 1 THEN raw_bid ELSE best_bid + 1
        my_ask == IF raw_ask > best_ask - 1 THEN raw_ask ELSE best_ask - 1
        buys == IF max_buy > 0 /\ my_bid > 0
                THEN <<Order(product, my_bid,
                             Run2_buy_size(vol, current_position, position_limit))>>
                ELSE <<>>
        sells == IF max_sell > 0 /\ my_ask > 0
                 THEN <<Order(product, my_ask,
                              -Run2_sell_size(vol, current_position, position_limit))>>
                 ELSE <<>>
    IN  IF Len(h.prices) > 5 THEN buys \o sells ELSE <<>>

(* Run2.0 generate_orders, lines 260-267: the single-instrument band.       *)
Run2_arbitrage(product, order_depth, fair_value, current_position, position_limit) ==
    LET best_bid == BestBidOrZero(order_depth)
        best_ask == BestAskOrZero(order_depth)
        max_buy == position_limit - current_position
        max_sell == position_limit + current_position
        avail_ask == -order_depth.sell_orders[best_ask]
        avail_bid == order_depth.buy_orders[best_bid]
        buys == IF best_ask * 1000 * fair_value.d < 997 * fair_value.n /\ max_buy > 0
                THEN <<Order(product, best_ask,
                             IF avail_ask < max_buy THEN avail_ask ELSE max_buy)>>
                ELSE <<>>
        sells == IF best_bid * 1000 * fair_value.d > 1003 * fair_value.n /\ max_sell > 0
                 THEN <<Order(product, best_bid,
                              -(IF avail_bid < max_sell THEN avail_bid ELSE max_sell))>>
                 ELSE <<>>
    IN  buys \o sells

Run2_generate_orders(product, order_depth, fair_value, current_position, position_limit, h, vol) ==
    IF BestBidOrZero(order_depth) = 0 \/ BestAskOrZero(order_depth) = 0
    THEN <<>>
    ELSE Run2_market_making(product, order_depth, fair_value, current_position,
                            position_limit, h, vol)
         \o Run2_arbitrage(product, order_depth, fair_value, current_position,
                           position_limit)

(* The order mapping run() builds: products whose list is empty get no key. *)
NonEmptyOrders(orders) ==
    [p \in {q \in DOMAIN orders : orders[q] # <<>>} |-> orders[p]]

(* Lines 69-73 of Run2.0 run(): extend or insert the basket-arbitrage lists. *)
MergeOrders(res, extra) ==
    [p \in DOMAIN res \cup DOMAIN extra |->
        IF p \in DOMAIN res /\ p \in DOMAIN extra THEN res[p] \o extra[p]
        ELSE IF p \in DOMAIN res THEN res[p] ELSE extra[p]]

(* The volatility mappings update_historical_data may leave behind.         *)
VolatilityChoices(vol, hd1, st) ==
    LET out(p) == IF p \in DOMAIN st.order_depths
                  THEN VolatilityOutcomes(Get(vol, p, DefaultVolatility), hd1[p],
                                          st.order_depths[p])
                  ELSE {vol[p]}
        open == {p \in DOMAIN hd1 : out(p) = PositiveVolatilities}
    IN  {[p \in DOMAIN hd1 |-> IF p \in open THEN c[p] ELSE CHOOSE x \in out(p) : TRUE] :
            c \in [open -> PositiveVolatilities]}

(* Lines 37-46 of Run2.0 run(): the single-instrument fair values, with     *)
(* bananas the value the BANANAS estimator returned.                        *)
Run2_single_fair_values(fv, st, bananas) ==
    [p \in DOMAIN fv \cup DOMAIN st.order_depths |->
        IF p \in DOMAIN st.order_depths
        THEN (IF p = "PEARLS" THEN calculate_pearls_fair_value
              ELSE IF p = "BANANAS" THEN bananas
              ELSE calculate_vwap(st.order_depths[p]))
        ELSE fv[p]]

(* The values the BANANAS estimator may return this tick (a placeholder     *)
(* when BANANAS is not in the snapshot and the estimator is not called).    *)
BananasChoices(outcomes, st) ==
    IF "BANANAS" \in DOMAIN st.order_depths
    THEN outcomes
    ELSE {Frac(0, 1)}

(* Lines 52-65 of Run2.0 run().                                             *)
Run2_all_orders(st, fv, hd1, vol1) ==
    [p \in DOMAIN st.order_depths |->
        Run2_generate_orders(p, st.order_depths[p], fv[p], Get(st.position, p, 0),
                             Get(Run2_position_limits, p, 20), hd1[p], vol1[p])]

(* Trader.run of Run2.0.py on the TradingState st.                          *)
Run2Tick(st) ==
    /\ engine = "Run2.0"
    /\ \E hd1 \in {update_historical_data(historical_data, st)} :
       \E vol1 \in VolatilityChoices(volatility, hd1, st) :
       \E bananas \in BananasChoices(Run2_bananas_outcomes(
                           Get(hd1, "BANANAS", initialize_product_state),
                           Get(st.order_depths, "BANANAS", OrderDepth(EmptyDict, EmptyDict))),
                       st) :
       \E fv2 \in {calculate_basket_fair_values(
                       Run2_single_fair_values(fair_values, st, bananas))} :
          /\ historical_data' = hd1
          /\ volatility' = vol1
          /\ fair_values' = fv2
          /\ result' = MergeOrders(NonEmptyOrders(Run2_all_orders(st, fv2, hd1, vol1)),
                                   generate_basket_arbitrage_orders(fv2))
    /\ state' = st
    /\ conversions' = 0
    /\ voucher_fair' = EmptyDict
    /\ ran' = TRUE
    /\ UNCHANGED <<engine, phase, basket_arb_orders, history, pnl>>

-----------------------------------------------------------------------------
(* run.py: same history tracker; its own quote sizes and thresholds.        *)

RunPy_buy_size(current_position, position_limit) ==
    LET max_buy == position_limit - current_position
        buy_size == IF 5 < max_buy THEN 5 ELSE max_buy
    IN  IF 2 * current_position > position_limit
        THEN (IF buy_size \div 2 > 1 THEN buy_size \div 2 ELSE 1)
        ELSE buy_size

RunPy_sell_size(current_position, position_limit) ==
    LET max_sell == position_limit + current_position
        sell_size == IF 5 < max_sell THEN 5 ELSE max_sell
    IN  IF 2 * current_position > position_limit
        THEN sell_size
        ELSE IF 2 * current_position < -position_limit
        THEN (IF sell_size \div 2 > 1 THEN sell_size \div 2 ELSE 1)
        ELSE sell_size

RunPy_market_making(product, order_depth, fair_value, current_position, position_limit, h, vol) ==
    LET best_bid == BestBidOrZero(order_depth)
        best_ask == BestAskOrZero(order_depth)
        max_buy == position_limit - current_position
        max_sell == position_limit + current_position
        adj == vol * fair_value.d      \* volatility * 0.5, in 1/2000
        raw_bid == RoundHalfEven(fair_value.n * 2000 - adj, 2000 * fair_value.d)
        raw_ask == RoundHalfEven(fair_value.n * 2000 + adj, 2000 * fair_value.d)
        my_bid == IF raw_bid < best_bid + 1 THEN raw_bid ELSE best_bid + 1
        my_ask == IF raw_ask > best_ask - 1 THEN raw_ask ELSE best_ask - 1
        buys == IF max_buy > 0
                THEN <<Order(product, my_bid, RunPy_buy_size(current_position, position_limit))>>
                ELSE <<>>
        sells == IF max_sell > 0
                 THEN <<Order(product, my_ask,
                              -RunPy_sell_size(current_position, position_limit))>>
                 ELSE <<>>
    IN  IF Len(h.prices) > 5 THEN buys \o sells ELSE <<>>

RunPy_arbitrage(product, order_depth, fair_value, current_position, position_limit) ==
    LET best_bid == BestBidOrZero(order_depth)
        best_ask == BestAskOrZero(order_depth)
        max_buy == position_limit - current_position
        max_sell == position_limit + current_position
        avail_ask == -order_depth.sell_orders[best_ask]
        avail_bid == order_depth.buy_orders[best_bid]
        buys == IF best_ask * 1000 * fair_value.d < 999 * fair_value.n /\ max_buy > 0
                THEN <<Order(product, best_ask,
                             IF avail_ask < max_buy THEN avail_ask ELSE max_buy)>>
                ELSE <<>>
        sells == IF best_bid * 1000 * fair_value.d > 1001 * fair_value.n /\ max_sell > 0
                 THEN <<Order(product, best_bid,
                              -(IF avail_bid < max_sell THEN avail_bid ELSE max_sell))>>
                 ELSE <<>>
    IN  buys \o sells

RunPy_generate_orders(product, order_depth, fair_value, current_position, position_limit, h, vol) ==
    IF BestBidOrZero(order_depth) = 0 \/ BestAskOrZero(order_depth) = 0
    THEN <<>>
    ELSE RunPy_market_making(product, order_depth, fair_value, current_position,
                             position_limit, h, vol)
         \o RunPy_arbitrage(product, order_depth, fair_value, current_position,
                            position_limit)

(* Lines 28-55 of run.py run(): fair value and orders product by product.   *)
RunPy_all_orders(st, fv, hd1, vol1) ==
    [p \in DOMAIN st.order_depths |->
        RunPy_generate_orders(p, st.order_depths[p], fv[p], Get(st.position, p, 0),
                              Get(RunPy_position_limits, p, 20), hd1[p], vol1[p])]

(* Trader.run of run.py on the TradingState st.                             *)
RunPyTick(st) ==
    /\ engine = "run"
    /\ \E hd1 \in {update_historical_data(historical_data, st)} :
       \E vol1 \in VolatilityChoices(volatility, hd1, st) :
       \E bananas \in BananasChoices(RunPy_bananas_outcomes(
                           Get(hd1, "BANANAS", initialize_product_state),
                           Get(st.order_depths, "BANANAS", OrderDepth(EmptyDict, EmptyDict))),
                       st) :
       \E fv1 \in {Run2_single_fair_values(fair_values, st, bananas)} :
          /\ historical_data' = hd1
          /\ volatility' = vol1
          /\ fair_values' = fv1
          /\ result' = NonEmptyOrders(RunPy_all_orders(st, fv1, hd1, vol1))
    /\ state' = st
    /\ conversions' = 0
    /\ voucher_fair' = EmptyDict
    /\ ran' = TRUE
    /\ UNCHANGED <<engine, phase, basket_arb_orders, history, pnl>>

-----------------------------------------------------------------------------
(* run8.py: a stateless two-sided quoter.                                   *)

Run8_position_limits ==
    [p \in {"PEARLS", "BANANAS", "VOLCANIC_ROCK"} |->
        IF p = "VOLCANIC_ROCK" THEN 400 ELSE 20]

(* A buy size reduced by the number of products quoted on the previous tick. *)
Run8_buy_qty_net_of_pending(limit, position) == IF 5 < limit - position - Cardinality(DOMAIN result) THEN 5 ELSE limit - position - Cardinality(DOMAIN result)

Run8_buy_qty(limit, position) == IF 5 < limit - position THEN 5 ELSE limit - position

Run8_sell_qty(limit, position) == IF 5 < limit + position THEN 5 ELSE limit + position

(* The body of the loop of run8 run() for a two-sided book: int() truncates *)
(* toward zero; the mid-price is positive, so mid - 1 is at least -1/2.     *)
Run8_orders(product, order_depth, position, limit) ==
    LET best_bid == Max(DOMAIN order_depth.buy_orders)
        best_ask == Min(DOMAIN order_depth.sell_orders)
        mid2 == best_bid + best_ask
        fair_buy == IF mid2 - 2 >= 0 THEN (mid2 - 2) \div 2 ELSE -((2 - mid2) \div 2)
        fair_sell == (mid2 + 2) \div 2
        buy_qty == Run8_buy_qty(limit, position)
        sell_qty == Run8_sell_qty(limit, position)
    IN  (IF buy_qty > 0 THEN <<Order(product, fair_buy, buy_qty)>> ELSE <<>>)
        \o (IF sell_qty > 0 THEN <<Order(product, fair_sell, -sell_qty)>> ELSE <<>>)

(* Trader.run of run8.py: a two-sided product always gets a key, even for   *)
(* an empty list.                                                           *)
Run8Tick(st) ==
    /\ engine = "run8"
    /\ result' = [p \in {q \in DOMAIN st.order_depths :
                            /\ DOMAIN st.order_depths[q].buy_orders # {}
                            /\ DOMAIN st.order_depths[q].sell_orders # {}} |->
                    Run8_orders(p, st.order_depths[p], Get(st.position, p, 0),
                                Get(Run8_position_limits, p, 20))]
    /\ state' = st
    /\ conversions' = 0
    /\ voucher_fair' = EmptyDict
    /\ ran' = TRUE
    /\ UNCHANGED <<engine, phase, basket_arb_orders, historical_data, volatility, fair_values, history, pnl>>

-----------------------------------------------------------------------------
(* The voucher engines: Run4.py, run3.py, run5.py, Run6.py, Run7.py.        *)
(* Timestamps are multiples of 100; a day is 100000.  A voucher's fair      *)
(* value is a fraction of price units.                                      *)

voucher_strikes ==
    [v \in {"VOLCANIC_ROCK_VOUCHER_9500", "VOLCANIC_ROCK_VOUCHER_9750",
            "VOLCANIC_ROCK_VOUCHER_10000", "VOLCANIC_ROCK_VOUCHER_10250",
            "VOLCANIC_ROCK_VOUCHER_10500"} |->
        CASE v = "VOLCANIC_ROCK_VOUCHER_9500" -> 9500
          [] v = "VOLCANIC_ROCK_VOUCHER_9750" -> 9750
          [] v = "VOLCANIC_ROCK_VOUCHER_10000" -> 10000
          [] v = "VOLCANIC_ROCK_VOUCHER_10250" -> 10250
          [] v = "VOLCANIC_ROCK_VOUCHER_10500" -> 10500]

Vouchers == DOMAIN voucher_strikes

Voucher_position_limits ==
    [p \in Vouchers \cup {"VOLCANIC_ROCK", "MAGNIFICENT_MACARONS"} |->
        IF p = "VOLCANIC_ROCK" THEN 400
        ELSE IF p = "MAGNIFICENT_MACARONS" THEN 75 ELSE 200]

NoMid == -1

(* A mid-price that falls back to the one quoted side of VOLCANIC_ROCK.     *)
RockMid2_one_sided(st) ==
    IF "VOLCANIC_ROCK" \notin DOMAIN st.order_depths THEN NoMid
    ELSE LET rock_depth == st.order_depths["VOLCANIC_ROCK"]
             bids == DOMAIN rock_depth.buy_orders
             asks == DOMAIN rock_depth.sell_orders
         IN  IF bids = {} /\ asks = {} THEN NoMid
             ELSE IF asks = {} THEN 2 * Max(bids)
             ELSE IF bids = {} THEN 2 * Min(asks)
             ELSE Max(bids) + Min(asks)

(* (best bid + best ask) of VOLCANIC_ROCK, or NoMid: the book is missing or *)
(* a side is empty.                                                         *)
RockMid2(st) ==
    IF "VOLCANIC_ROCK" \notin DOMAIN st.order_depths THEN NoMid
    ELSE LET rock_depth == st.order_depths["VOLCANIC_ROCK"]
         IN  IF DOMAIN rock_depth.buy_orders = {} \/ DOMAIN rock_depth.sell_orders = {}
             THEN NoMid
             ELSE Max(DOMAIN rock_depth.buy_orders) + Min(DOMAIN rock_depth.sell_orders)

(* max(0, rock_mid - strike), doubled.                                      *)
Intrinsic2(rock2, strike) == IF rock2 - 2 * strike > 0 THEN rock2 - 2 * strike ELSE 0

(* Run4: time_left = max(0.1, 7 - timestamp / 100000) in thousandths of a   *)
(* day, decay = time_left / 7 without the floor of 0.2.                     *)
Run4_decay_no_floor(timestamp) ==
    LET time_left == IF 7000 - timestamp \div 100 > 100
                     THEN 7000 - timestamp \div 100 ELSE 100
    IN  Frac(time_left, 7000)

(* Run4: decay = max(0.2, time_left / 7).                                   *)
Run4_decay(timestamp) ==
    LET time_left == IF 7000 - timestamp \div 100 > 100
                     THEN 7000 - timestamp \div 100 ELSE 100
    IN  Frac(IF time_left > 1400 THEN time_left ELSE 1400, 7000)

(* run3: time_left = 7 - int(timestamp / 100000), a whole number of days    *)
(* that goes negative after day 7; time_decay_factor = max(0.2, time_left/7). *)
Run3_time_decay_factor(timestamp) ==
    LET time_left == 7 - timestamp \div 100000
    IN  Frac(IF 5 * time_left > 7 THEN 5 * time_left ELSE 7, 35)

(* run5 and Run6: decay_factor = exp(-1.5 * (1 - time_to_expiry / 7)) with  *)
(* time_to_expiry = max(0.1, 7 - timestamp / 100000), in thousandths,       *)
(* tabulated at whole and half days.                                        *)
ExpDecay(timestamp) ==
    LET tte == IF 7000 - timestamp \div 100 > 100 THEN 7000 - timestamp \div 100 ELSE 100
    IN  Frac(CASE tte = 7000 -> 1000
               [] tte = 6500 -> 898
               [] tte = 6000 -> 807
               [] tte = 5500 -> 725
               [] tte = 5000 -> 651
               [] tte = 4500 -> 585
               [] tte = 4000 -> 526
               [] tte = 3500 -> 472
               [] tte = 3000 -> 424
               [] tte = 2500 -> 381
               [] tte = 2000 -> 343
               [] tte = 1500 -> 308
               [] tte = 1000 -> 276
               [] tte = 500 -> 248
               [] tte = 100 -> 228, 1000)

(* The fair value of the four decay engines: intrinsic value times decay.   *)
DecayFairValue(rock2, strike, decay) ==
    Frac(Intrinsic2(rock2, strike) * decay.n, 2 * decay.d)

(* Run7: time_value = (tte / 7) ** 1.5 in thousandths, for tte = 1..7.      *)
Run7_time_value(tte) ==
    CASE tte = 1 -> 54 [] tte = 2 -> 153 [] tte = 3 -> 281 [] tte = 4 -> 432
      [] tte = 5 -> 604 [] tte = 6 -> 794 [] tte = 7 -> 1000

(* intrinsic * time_value alone, without the fixed premium.                 *)
Run7_fair_value_no_premium(spot2, strike, tte) ==
    Frac(Intrinsic2(spot2, strike) * Run7_time_value(tte), 2000)

(* Run7 calculate_fair_value: intrinsic * time_value + 5.                   *)
Run7_calculate_fair_value(spot2, strike, tte) ==
    Frac(Intrinsic2(spot2, strike) * Run7_time_value(tte) + 5 * 2000, 2000)

(* Run7: days_left = max(1, 7 - int(timestamp / 100000)).                   *)
Run7_days_left(timestamp) ==
    IF 7 - timestamp \div 100000 > 1 THEN 7 - timestamp \div 100000 ELSE 1

FracLess(a, b) == a.n * b.d < b.n * a.d

PriceBelow(price, fair) == price * fair.d < fair.n

PriceAbove(price, fair) == price * fair.d > fair.n

MinOf(a, b) == IF a < b THEN a ELSE b

(* Run4 lines 58-82 for one voucher whose book is not empty on both sides.   *)
Run4_product_orders(product, depth, fair_value, pos, limit) ==
    LET has_bid == DOMAIN depth.buy_orders # {}
        has_ask == DOMAIN depth.sell_orders # {}
        bid == Max(DOMAIN depth.buy_orders)
        ask == Min(DOMAIN depth.sell_orders)
        buys == IF has_ask /\ PriceBelow(ask, fair_value) /\ pos < limit
                   /\ MinOf(limit - pos, -depth.sell_orders[ask]) > 0
                THEN <<Order(product, ask, MinOf(limit - pos, -depth.sell_orders[ask]))>>
                ELSE <<>>
        sells == IF has_bid /\ PriceAbove(bid, fair_value) /\ pos > -limit
                    /\ MinOf(limit + pos, depth.buy_orders[bid]) > 0
                 THEN <<Order(product, bid, -MinOf(limit + pos, depth.buy_orders[bid]))>>
                 ELSE <<>>
    IN  buys \o sells

(* Listed vouchers with bids and asks both present.                         *)
Run4_valued_two_sided(st) ==
    {v \in Vouchers \cap DOMAIN st.order_depths :
        DOMAIN st.order_depths[v].buy_orders # {} /\ DOMAIN st.order_depths[v].sell_orders # {}}

(* Vouchers Run4 values this tick: listed, and not empty on both sides.     *)
Run4_valued(st) ==
    {v \in Vouchers \cap DOMAIN st.order_depths :
        DOMAIN st.order_depths[v].buy_orders # {} \/ DOMAIN st.order_depths[v].sell_orders # {}}

(* Trader.run of Run4.py.                                                   *)
Run4Tick(st) ==
    /\ engine = "Run4"
    /\ \E rock2 \in {RockMid2(st)} :
         IF rock2 = NoMid
         THEN /\ result' = EmptyDict
              /\ voucher_fair' = EmptyDict
              /\ UNCHANGED fair_values
         ELSE \E fair \in {[v \in Run4_valued(st) |->
                               DecayFairValue(rock2, voucher_strikes[v],
                                              Run4_decay(st.timestamp))]} :
              /\ fair_values' = Put(fair_values, "VOLCANIC_ROCK", Frac(rock2, 2))
              /\ voucher_fair' = fair
              /\ result' = NonEmptyOrders(
                    [v \in Run4_valued(st) |->
                        Run4_product_orders(v, st.order_depths[v], fair[v],
                            Get(st.position, v, 0), Voucher_position_limits[v])])
    /\ state' = st
    /\ conversions' = 0
    /\ ran' = TRUE
    /\ UNCHANGED <<engine, phase, basket_arb_orders, historical_data, volatility, history, pnl>>

(* run3 lines 56-77 for one listed voucher: an empty side has best price 0, *)
(* which is falsy; volumes are not tested against 0.                        *)
Run3_orders(product, order_depth, fair_value, current_position, limit) ==
    LET best_bid == BestBidOrZero(order_depth)
        best_ask == BestAskOrZero(order_depth)
        buys == IF best_ask # 0 /\ PriceBelow(best_ask, fair_value)
                   /\ current_position < limit
                THEN <<Order(product, best_ask,
                             MinOf(limit - current_position,
                                   -order_depth.sell_orders[best_ask]))>>
                ELSE <<>>
        sells == IF best_bid # 0 /\ PriceAbove(best_bid, fair_value)
                    /\ current_position > -limit
                 THEN <<Order(product, best_bid,
                              -MinOf(limit + current_position,
                                     order_depth.buy_orders[best_bid]))>>
                 ELSE <<>>
    IN  buys \o sells

(* Trader.run of run3.py.                                                   *)
Run3Tick(st) ==
    /\ engine = "run3"
    /\ \E rock2 \in {RockMid2(st)} :
         IF rock2 = NoMid
         THEN /\ result' = EmptyDict
              /\ voucher_fair' = EmptyDict
              /\ UNCHANGED fair_values
         ELSE \E fair \in {[v \in Vouchers \cap DOMAIN st.order_depths |->
                               DecayFairValue(rock2, voucher_strikes[v],
                                              Run3_time_decay_factor(st.timestamp))]} :
              /\ fair_values' = Put(fair_values, "VOLCANIC_ROCK", Frac(rock2, 2))
              /\ voucher_fair' = fair
              /\ result' = NonEmptyOrders(
                    [v \in Vouchers \cap DOMAIN st.order_depths |->
                        Run3_orders(v, st.order_depths[v], fair[v],
                            Get(st.position, v, 0), Voucher_position_limits[v])])
    /\ state' = st
    /\ conversions' = 0
    /\ ran' = TRUE
    /\ UNCHANGED <<engine, phase, basket_arb_orders, historical_data, volatility, history, pnl>>

(* fair_price - 1.5 and fair_price + 1.5 against an integer price.          *)
AtOrAboveBuyBar(price, fair) == 2 * price * fair.d >= 2 * fair.n - 3 * fair.d

AboveBuyBar(price, fair) == 2 * price * fair.d > 2 * fair.n - 3 * fair.d

AtOrBelowSellBar(price, fair) == 2 * price * fair.d <= 2 * fair.n + 3 * fair.d

BelowSellBar(price, fair) == 2 * price * fair.d < 2 * fair.n + 3 * fair.d

(* The buy loop of run5 (lines 63-70) and Run6 (lines 59-67) over the ask   *)
(* prices S still to visit, lowest first, with the running position pos.    *)
(* run5 stops at ask >= fair - 1.5 (inclusive), Run6 at ask > fair - 1.5.   *)
RECURSIVE BuySweep(_, _, _, _, _, _, _)
BuySweep(voucher, S, depth, fair, pos, limit, inclusive) ==
    IF S = {} THEN [orders |-> <<>>, pos |-> pos]
    ELSE LET ask == Min(S)
             stop == \/ pos >= limit
                     \/ (IF inclusive THEN AtOrAboveBuyBar(ask, fair)
                                      ELSE AboveBuyBar(ask, fair))
             volume == MinOf(limit - pos, -depth.sell_orders[ask])
         IN  IF stop THEN [orders |-> <<>>, pos |-> pos]
             ELSE IF volume > 0
             THEN LET rest == BuySweep(voucher, S \ {ask}, depth, fair, pos + volume,
                                       limit, inclusive)
                  IN  [orders |-> <<Order(voucher, ask, volume)>> \o rest.orders,
                       pos |-> rest.pos]
             ELSE BuySweep(voucher, S \ {ask}, depth, fair, pos, limit, inclusive)

(* The sell loop of run5 (lines 73-80) and Run6 (lines 70-78) over the bid  *)
(* prices S still to visit, highest first.                                  *)
RECURSIVE SellSweep(_, _, _, _, _, _, _)
SellSweep(voucher, S, depth, fair, pos, limit, inclusive) ==
    IF S = {} THEN [orders |-> <<>>, pos |-> pos]
    ELSE LET bid == Max(S)
             stop == \/ pos <= -limit
                     \/ (IF inclusive THEN AtOrBelowSellBar(bid, fair)
                                      ELSE BelowSellBar(bid, fair))
             volume == MinOf(limit + pos, depth.buy_orders[bid])
         IN  IF stop THEN [orders |-> <<>>, pos |-> pos]
             ELSE IF volume > 0
             THEN LET rest == SellSweep(voucher, S \ {bid}, depth, fair, pos - volume,
                                        limit, inclusive)
                  IN  [orders |-> <<Order(voucher, bid, -volume)>> \o rest.orders,
                       pos |-> rest.pos]
             ELSE SellSweep(voucher, S \ {bid}, depth, fair, pos, limit, inclusive)

(* Both loops for one voucher: the sell loop starts from the position the   *)
(* buy loop simulated.                                                      *)
SweepOrders(voucher, depth, fair, pos, limit, inclusive) ==
    LET bought == BuySweep(voucher, DOMAIN depth.sell_orders, depth, fair, pos, limit,
                           inclusive)
    IN  bought.orders
        \o SellSweep(voucher, DOMAIN depth.buy_orders, depth, fair, bought.pos, limit,
                     inclusive).orders

(* Trader.run of run5.py.                                                   *)
Run5Tick(st) ==
    /\ engine = "run5"
    /\ \E rock2 \in {RockMid2(st)} :
         IF rock2 = NoMid
         THEN /\ result' = EmptyDict
              /\ voucher_fair' = EmptyDict
         ELSE \E fair \in {[v \in Vouchers \cap DOMAIN st.order_depths |->
                               DecayFairValue(rock2, voucher_strikes[v],
                                              ExpDecay(st.timestamp))]} :
              /\ voucher_fair' = fair
              /\ result' = NonEmptyOrders(
                    [v \in Vouchers \cap DOMAIN st.order_depths |->
                        SweepOrders(v, st.order_depths[v], fair[v],
                            Get(st.position, v, 0), Voucher_position_limits[v], TRUE)])
    /\ state' = st
    /\ conversions' = 0
    /\ ran' = TRUE
    /\ UNCHANGED <<engine, phase, basket_arb_orders, historical_data, volatility, fair_values, history, pnl>>

(* A conversion volume without the per-tick cap max_convert.                *)
Run6_conversion_volume_uncapped(max_convert, capacity, resting) == MinOf(capacity, resting)

(* Run6 lines 108 and 115: min(max_convert, capacity, resting volume).      *)
Run6_conversion_volume(max_convert, capacity, resting) == MinOf(max_convert, MinOf(capacity, resting))

(* A buy test whose fees are subtracted from the ask instead of added.      *)
Run6_buy_profitable_fees_subtracted(best_bid, best_ask) == 10 * best_ask - 21 < 5 * (best_bid + best_ask)

(* Run6 lines 106-107: effective_buy = best_ask + 1 + 1 + 0.1 < mid_price,  *)
(* in tenths.                                                               *)
Run6_buy_profitable(best_bid, best_ask) == 10 * best_ask + 21 < 5 * (best_bid + best_ask)

(* Run6 lines 84-117: the conversion count for MAGNIFICENT_MACARONS.        *)
(* effective_buy = best_ask + 2.1 and effective_sell = best_bid - 2 are     *)
(* compared with the mid-price.                                             *)
Run6_conversions(st) ==
    IF "MAGNIFICENT_MACARONS" \notin DOMAIN st.order_depths THEN 0
    ELSE LET mac_depth == st.order_depths["MAGNIFICENT_MACARONS"]
             pos == Get(st.position, "MAGNIFICENT_MACARONS", 0)
             limit == Voucher_position_limits["MAGNIFICENT_MACARONS"]
             max_convert == 10
         IN  IF DOMAIN mac_depth.buy_orders = {} \/ DOMAIN mac_depth.sell_orders = {}
             THEN 0
             ELSE LET best_bid == Max(DOMAIN mac_depth.buy_orders)
                      best_ask == Min(DOMAIN mac_depth.sell_orders)
                      buy_volume == Run6_conversion_volume(max_convert, limit - pos,
                                                           -mac_depth.sell_orders[best_ask])
                      sell_volume == Run6_conversion_volume(max_convert, limit + pos,
                                                            mac_depth.buy_orders[best_bid])
                      bought == IF Run6_buy_profitable(best_bid, best_ask)
                                   /\ pos < limit /\ buy_volume > 0
                                THEN buy_volume ELSE 0
                      sold == IF 2 * (best_bid - 2) > best_bid + best_ask
                                 /\ pos > -limit /\ sell_volume > 0
                              THEN sell_volume ELSE 0
                  IN  bought - sold

(* Trader.run of Run6.py.                                                   *)
Run6Tick(st) ==
    /\ engine = "Run6"
    /\ \E rock2 \in {RockMid2(st)} :
         IF rock2 = NoMid \/ rock2 = 0
         THEN /\ result' = EmptyDict
              /\ voucher_fair' = EmptyDict
         ELSE \E fair \in {[v \in Vouchers \cap DOMAIN st.order_depths |->
                               DecayFairValue(rock2, voucher_strikes[v],
                                              ExpDecay(st.timestamp))]} :
              /\ voucher_fair' = fair
              /\ result' = NonEmptyOrders(
                    [v \in Vouchers \cap DOMAIN st.order_depths |->
                        SweepOrders(v, st.order_depths[v], fair[v],
                            Get(st.position, v, 0), Voucher_position_limits[v], FALSE)])
    /\ conversions' = Run6_conversions(st)
    /\ state' = st
    /\ ran' = TRUE
    /\ UNCHANGED <<engine, phase, basket_arb_orders, historical_data, volatility, fair_values, history, pnl>>

(* Appending without the cap of lines 100-101.                              *)
log_price_uncapped(hist, product, price2) ==
    Put(hist, product, Append(Get(hist, product, <<>>), price2))

(* Run7 log_price: append, then keep the last 300 (prices are doubled).     *)
log_price(hist, product, price2) ==
    LET appended == Append(Get(hist, product, <<>>), price2)
    IN  Put(hist, product,
            IF Len(appended) > 300
            THEN SubSeq(appended, Len(appended) - 299, Len(appended))
            ELSE appended)

(* 1600 times the variance np.std(prices[-20:]) ** 2 of the last 20 prices. *)
Variance1600(prices) ==
    LET last == SubSeq(prices, Len(prices) - 19, Len(prices))
        squares == [i \in 1..20 |-> last[i] * last[i]]
    IN  20 * SumSeq(squares) - SumSeq(last) * SumSeq(last)

(* Run7: (num / 2000) / get_std_dev(product, fallback=3) > 1.  With fewer   *)
(* than 20 prices the divisor is 3; otherwise it is the standard deviation, *)
(* and dividing by a zero numpy float gives inf or nan without raising.     *)
ZScoreAboveOne(num, hist, product) ==
    LET prices == Get(hist, product, <<>>)
    IN  IF Len(prices) < 20 THEN num > 3 * 2000
        ELSE num > 0 /\ num * num > 2500 * Variance1600(prices)

(* Vouchers Run7 values: listed with both sides non-empty.                  *)
Run7_valued(st) ==
    {v \in Vouchers \cap DOMAIN st.order_depths :
        DOMAIN st.order_depths[v].buy_orders # {} /\ DOMAIN st.order_depths[v].sell_orders # {}}

(* self.history after the log_price calls of one run().                     *)
RECURSIVE Run7_log_vouchers(_, _, _)
Run7_log_vouchers(hist, st, S) ==
    IF S = {} THEN hist
    ELSE LET v == CHOOSE v \in S : TRUE
             depth == st.order_depths[v]
         IN  Run7_log_vouchers(
                 log_price(hist, v,
                     Max(DOMAIN depth.buy_orders) + Min(DOMAIN depth.sell_orders)),
                 st, S \ {v})

(* Run7 lines 45-73 for one valued voucher; fair_value has denominator 2000. *)
Run7_action_list(voucher, order_depth, fair_value, pos, limit, hist) ==
    LET best_bid == Max(DOMAIN order_depth.buy_orders)
        best_ask == Min(DOMAIN order_depth.sell_orders)
        buy_qty == MinOf(limit - pos, -order_depth.sell_orders[best_ask])
        sell_qty == MinOf(pos + limit, order_depth.buy_orders[best_bid])
        buys == IF ZScoreAboveOne(fair_value.n - best_ask * 2000, hist, voucher)
                   /\ pos < limit /\ buy_qty > 0
                THEN <<Order(voucher, best_ask, buy_qty)>>
                ELSE <<>>
        sells == IF ZScoreAboveOne(best_bid * 2000 - fair_value.n, hist, voucher)
                    /\ pos > -limit /\ sell_qty > 0
                 THEN <<Order(voucher, best_bid, -sell_qty)>>
                 ELSE <<>>
    IN  buys \o sells

(* The change of self.pnl the orders of one run() make.                     *)
RECURSIVE OrdersCash(_)
OrdersCash(orders) ==
    IF orders = <<>> THEN 0
    ELSE -(Head(orders).price * Head(orders).quantity) + OrdersCash(Tail(orders))

RECURSIVE Run7_cash(_, _)
Run7_cash(res, S) ==
    IF S = {} THEN 0
    ELSE LET v == CHOOSE v \in S : TRUE
         IN  OrdersCash(res[v]) + Run7_cash(res, S \ {v})

(* Trader.run of Run7.py (the diagnostic string is not kept).               *)
Run7Tick(st) ==
    /\ engine = "Run7"
    /\ \E rock2 \in {RockMid2(st)} :
         IF rock2 = NoMid
         THEN /\ result' = EmptyDict
              /\ voucher_fair' = EmptyDict
              /\ UNCHANGED <<history, pnl>>
         ELSE \E fair \in {[v \in Run7_valued(st) |->
                               Run7_calculate_fair_value(rock2, voucher_strikes[v],
                                                         Run7_days_left(st.timestamp))]} :
              \E hist \in {Run7_log_vouchers(log_price(history, "VOLCANIC_ROCK", rock2),
                                             st, Run7_valued(st))} :
              \E res \in {NonEmptyOrders(
                             [v \in Run7_valued(st) |->
                                 Run7_action_list(v, st.order_depths[v], fair[v],
                                     Get(st.position, v, 0), Voucher_position_limits[v],
                                     hist)])} :
              /\ voucher_fair' = fair
              /\ history' = hist
              /\ result' = res
              /\ pnl' = pnl + Run7_cash(res, DOMAIN res)
    /\ state' = st
    /\ conversions' = 0
    /\ ran' = TRUE
    /\ UNCHANGED <<engine, phase, basket_arb_orders, historical_data, volatility, fair_values>>

-----------------------------------------------------------------------------
(* The state after Trader.__init__, before the first tick.                  *)

Fresh ==
    /\ historical_data = EmptyDict
    /\ volatility = EmptyDict
    /\ fair_values = EmptyDict
    /\ history = EmptyDict
    /\ pnl = 0
    /\ state = TradingState(0, EmptyDict, EmptyDict)
    /\ result = EmptyDict
    /\ conversions = 0
    /\ voucher_fair = EmptyDict
    /\ ran = FALSE
    /\ phase = "Idle"
    /\ basket_arb_orders = EmptyDict

-----------------------------------------------------------------------------
(* A single-product market: the exchange lists one product and sends its    *)
(* book every tick.                                                         *)

MaxTicks == 7

PearlsBooks ==
    {OrderDepth(9998 :> 60, 10002 :> -60),     \* around the fixed value, volume > 100
     OrderDepth(9950 :> 30, 9960 :> -30)}      \* best ask below the band

(* Three two-sided books with the same best prices and the same total      *)
(* volume, whose VWAP lies inside, above and below the touch.               *)
DjembeBooks ==
    {OrderDepth(10 :> 6, 12 :> -6),
     OrderDepth(10 :> 2, (12 :> -2) @@ (40 :> -8)),
     OrderDepth((10 :> 2) @@ (1 :> 8), 12 :> -2),
     OrderDepth(EmptyDict, 12 :> -6)}

BananasBooks ==
    {OrderDepth(100 :> 4, 102 :> -4),
     OrderDepth(102 :> 4, 104 :> -4)}

RockBooksMM ==
    {OrderDepth(10000 :> 7, 10003 :> -3),
     OrderDepth(10000 :> 7, EmptyDict)}

BooksOf(product) ==
    CASE product = "PEARLS" -> PearlsBooks
      [] product = "DJEMBE" -> DjembeBooks
      [] product = "BANANAS" -> BananasBooks
      [] product = "VOLCANIC_ROCK" -> RockBooksMM

LimitsOf(eng) ==
    CASE eng = "Run2.0" -> Run2_position_limits
      [] eng = "run" -> RunPy_position_limits
      [] eng = "run8" -> Run8_position_limits
      [] eng \in {"Run4", "run3", "run5", "Run6", "Run7"} -> Voucher_position_limits

(* Positions the exchange may report for a limit: the ends, one inside the *)
(* ends, beyond the throttling ratio on both sides, and flat.               *)
PositionsFor(limit) ==
    {-limit, 1 - limit, -((13 * limit) \div 20), 0, (13 * limit) \div 20, limit - 1, limit}

(* An absent position entry stands for a flat position.                     *)
PositionDict(product, pos) == IF pos = 0 THEN EmptyDict ELSE product :> pos

SingleProductStates(eng, products) ==
    UNION {{TradingState(0, product :> book, PositionDict(product, pos)) :
              book \in BooksOf(product),
              pos \in PositionsFor(Get(LimitsOf(eng), product, 20))} :
           product \in products}

SameMarket(st) ==
    \/ historical_data = EmptyDict
    \/ DOMAIN st.order_depths = DOMAIN historical_data

TicksLeft ==
    \A p \in DOMAIN historical_data : Len(historical_data[p].volumes) < MaxTicks

InitMM == engine \in {"Run2.0", "run", "run8"} /\ Fresh

Run2StatesMM == SingleProductStates("Run2.0", {"PEARLS", "BANANAS", "DJEMBE"})

RunPyStatesMM == SingleProductStates("run", {"PEARLS", "BANANAS", "DJEMBE"})

Run8StatesMM == SingleProductStates("run8", {"PEARLS", "DJEMBE", "VOLCANIC_ROCK"})

NextMM ==
    \/ /\ engine = "Run2.0" /\ TicksLeft
       /\ \E st \in Run2StatesMM : SameMarket(st) /\ Run2Tick(st)
    \/ /\ engine = "run" /\ TicksLeft
       /\ \E st \in RunPyStatesMM : SameMarket(st) /\ RunPyTick(st)
    \/ \E st \in Run8StatesMM : Run8Tick(st)

SpecMM == InitMM /\ [][NextMM]_vars

-----------------------------------------------------------------------------
(* A basket market: the exchange lists the picnic baskets and their         *)
(* components, and a tick's snapshot holds some of them.                    *)

MaxBasketTicks == 3

CroissantBooks ==
    {OrderDepth(10 :> 1, 12 :> -1),                  \* VWAP 11
     OrderDepth(12 :> 1, 14 :> -2)}                  \* VWAP 40/3

JamBook == OrderDepth(20 :> 1, 22 :> -1)             \* VWAP 21

DjembeBook == OrderDepth(30 :> 1, 32 :> -1)          \* VWAP 31

Basket1Books ==
    {OrderDepth(150 :> 5, 158 :> -5),                \* VWAP 154
     OrderDepth(150 :> 1, (158 :> -1) @@ (300 :> -5))}  \* VWAP 1808/7

Basket2Book == OrderDepth(80 :> 2, 84 :> -2)         \* VWAP 82

BasketPositions == {0, 60}

(* Everything listed; the baskets alone; the baskets without DJEMBE; the    *)
(* components alone.                                                        *)
BasketStates ==
    {TradingState(0,
        ("CROISSANT" :> c) @@ ("JAM" :> JamBook) @@ ("DJEMBE" :> DjembeBook)
        @@ ("PICNIC_BASKET1" :> b) @@ ("PICNIC_BASKET2" :> Basket2Book),
        PositionDict("PICNIC_BASKET1", pos)) :
        c \in CroissantBooks, b \in Basket1Books, pos \in BasketPositions}
    \cup
    {TradingState(0,
        ("PICNIC_BASKET1" :> b) @@ ("PICNIC_BASKET2" :> Basket2Book),
        PositionDict("PICNIC_BASKET1", pos)) :
        b \in Basket1Books, pos \in BasketPositions}
    \cup
    {TradingState(0,
        ("CROISSANT" :> c) @@ ("JAM" :> JamBook)
        @@ ("PICNIC_BASKET1" :> b) @@ ("PICNIC_BASKET2" :> Basket2Book),
        PositionDict("PICNIC_BASKET1", pos)) :
        c \in CroissantBooks, b \in Basket1Books, pos \in BasketPositions}
    \cup
    {TradingState(0,
        ("CROISSANT" :> c) @@ ("JAM" :> JamBook) @@ ("DJEMBE" :> DjembeBook),
        EmptyDict) :
        c \in CroissantBooks}

BasketTicksLeft ==
    \A p \in DOMAIN historical_data : Len(historical_data[p].volumes) < MaxBasketTicks

InitBasket == engine = "Run2.0" /\ Fresh

NextBasket == BasketTicksLeft /\ \E st \in BasketStates : Run2Tick(st)

SpecBasket == InitBasket /\ [][NextBasket]_vars

-----------------------------------------------------------------------------
(* A voucher market: VOLCANIC_ROCK, its vouchers and, for Run6, the         *)
(* macarons.  Every listed voucher shows the same book and position.        *)

MaxRun7Ticks == 2

Timestamps == {0, 350000, 700000, 800000}

RockDepths ==
    {"VOLCANIC_ROCK" :> OrderDepth(10000 :> 5, 10002 :> -5),
     "VOLCANIC_ROCK" :> OrderDepth(10000 :> 5, EmptyDict),
     EmptyDict}

VoucherBooks ==
    {OrderDepth((90 :> 10) @@ (80 :> 250), (120 :> -10) @@ (130 :> -250)),
     OrderDepth(300 :> 250, 100 :> -50),             \* crossed
     OrderDepth(EmptyDict, 100 :> -5),               \* no bids
     OrderDepth(300 :> 5, EmptyDict),                \* no asks
     OrderDepth(EmptyDict, EmptyDict)}

VoucherPositions == {-200, 0, 199, 200}

VoucherState(timestamp, rock, listed, book, pos) ==
    TradingState(timestamp,
                 rock @@ [v \in listed |-> book],
                 IF pos = 0 THEN EmptyDict ELSE [v \in listed |-> pos])

VoucherStates ==
    {VoucherState(t, rock, Vouchers, book, pos) :
        t \in Timestamps, rock \in RockDepths, book \in VoucherBooks,
        pos \in VoucherPositions}
    \cup
    {VoucherState(0, "VOLCANIC_ROCK" :> OrderDepth(10000 :> 5, 10002 :> -5),
                  {"VOLCANIC_ROCK_VOUCHER_9750", "VOLCANIC_ROCK_VOUCHER_10250"}, book, pos) :
        book \in VoucherBooks, pos \in VoucherPositions}

MacaronBooks ==
    {OrderDepth(100 :> 20, 102 :> -20),
     OrderDepth(110 :> 20, 100 :> -20),              \* crossed by more than 4
     OrderDepth(110 :> 3, 100 :> -20),               \* crossed, thin bid
     OrderDepth(104 :> 20, 100 :> -20),              \* crossed by exactly 4
     OrderDepth(100 :> 20, 100 :> -20),              \* locked
     OrderDepth(100 :> 20, EmptyDict)}

MacaronStates ==
    {TradingState(0, "MAGNIFICENT_MACARONS" :> book,
                  PositionDict("MAGNIFICENT_MACARONS", pos)) :
        book \in MacaronBooks, pos \in {-75, -70, 0, 70, 75}}

Run7States ==
    {VoucherState(t, rock, Vouchers, book, 0) :
        t \in {0, 700000},
        rock \in RockDepths,
        book \in {OrderDepth((90 :> 10) @@ (80 :> 250), (120 :> -10) @@ (130 :> -250)),
                  OrderDepth(300 :> 250, 100 :> -50),
                  OrderDepth(EmptyDict, 100 :> -5)}}

Run7TicksLeft == Len(Get(history, "VOLCANIC_ROCK", <<>>)) < MaxRun7Ticks

InitVoucher == engine \in {"Run4", "run3", "run5", "Run6", "Run7"} /\ Fresh

NextVoucher ==
    \/ \E st \in VoucherStates : Run4Tick(st)
    \/ \E st \in VoucherStates : Run3Tick(st)
    \/ \E st \in VoucherStates : Run5Tick(st)
    \/ \E st \in VoucherStates \cup MacaronStates : Run6Tick(st)
    \/ Run7TicksLeft /\ \E st \in Run7States : Run7Tick(st)

SpecVoucher == InitVoucher /\ [][NextVoucher]_vars

-----------------------------------------------------------------------------
(* A first tick on a single VWAP-valued product (JAM) over every book of    *)
(* up to two levels a side.                                                 *)

VwapBidLevels == {EmptyDict} \cup UNION {[S -> {3, 5}] : S \in {{9}, {10}, {9, 10}}}

VwapAskLevels == {EmptyDict} \cup UNION {[S -> {-4, -1}] : S \in {{11}, {12}, {11, 12}}}

VwapStates ==
    {TradingState(0, "JAM" :> OrderDepth(bo, so), EmptyDict) :
        bo \in VwapBidLevels, so \in VwapAskLevels}

InitVwap == engine \in {"Run2.0", "run"} /\ Fresh

NextVwap ==
    \/ ~ran /\ \E st \in VwapStates : Run2Tick(st)
    \/ ~ran /\ \E st \in VwapStates : RunPyTick(st)

SpecVwap == InitVwap /\ [][NextVwap]_vars

-----------------------------------------------------------------------------
(* A long Run7 session: one tick every 100 time units from timestamp 0,     *)
(* VOLCANIC_ROCK quoted 10000 / 10002 throughout, one voucher listed.  The  *)
(* voucher's book may change during the first MarketOpenTicks ticks and     *)
(* repeats afterwards.                                                      *)

MaxLogTicks == 301

MarketOpenTicks == 3

LongVoucher == "VOLCANIC_ROCK_VOUCHER_10250"

LongVoucherBooks ==
    {OrderDepth(4 :> 10, 6 :> -10),
     OrderDepth(6 :> 10, 8 :> -10),
     OrderDepth(EmptyDict, 6 :> -10)}

NextTimestamp == IF ran THEN state.timestamp + 100 ELSE 0

LongState(book) ==
    VoucherState(NextTimestamp, "VOLCANIC_ROCK" :> OrderDepth(10000 :> 5, 10002 :> -5),
                 {LongVoucher}, book, 0)

InitRun7 == engine = "Run7" /\ Fresh

NextRun7 ==
    /\ NextTimestamp < 100 * MaxLogTicks
    /\ \E book \in LongVoucherBooks :
         /\ NextTimestamp >= 100 * MarketOpenTicks => book = state.order_depths[LongVoucher]
         /\ Run7Tick(LongState(book))

SpecRun7 == InitRun7 /\ [][NextRun7]_vars

-----------------------------------------------------------------------------
(* What the most recent tick was given and returned, product by product.    *)

LimitOf(p) == Get(LimitsOf(engine), p, 20)

PositionOf(p) == Get(state.position, p, 0)

OrdersOf(p) == Get(result, p, <<>>)

RECURSIVE BuyTotal(_)
BuyTotal(orders) ==
    IF orders = <<>> THEN 0
    ELSE (IF Head(orders).quantity > 0 THEN Head(orders).quantity ELSE 0)
         + BuyTotal(Tail(orders))

RECURSIVE SellTotal(_)
SellTotal(orders) ==
    IF orders = <<>> THEN 0
    ELSE (IF Head(orders).quantity < 0 THEN -Head(orders).quantity ELSE 0)
         + SellTotal(Tail(orders))

OneSided(order_depth) ==
    DOMAIN order_depth.buy_orders = {} \/ DOMAIN order_depth.sell_orders = {}

-----------------------------------------------------------------------------
(* C1: in Run2.0, for every instrument of a tick whose position is within  *)
(* the limit, the buy quantities emitted for it sum to at most limit -     *)
(* position and the sell quantities to at most limit + position.           *)
C1_TotalWithinCapacity ==
    (engine = "Run2.0" /\ ran) =>
        \A p \in DOMAIN state.order_depths :
            Abs(PositionOf(p)) <= LimitOf(p) =>
                /\ BuyTotal(OrdersOf(p)) <= LimitOf(p) - PositionOf(p)
                /\ SellTotal(OrdersOf(p)) <= LimitOf(p) + PositionOf(p)

(* C2: in Run2.0 and run8, for a position within the limit, every single   *)
(* emitted buy has quantity at most limit - position and every single sell *)
(* magnitude at most limit + position, the throttling floor of 1 included. *)
C2_EachOrderWithinCapacity ==
    (engine \in {"Run2.0", "run8"} /\ ran) =>
        \A p \in DOMAIN state.order_depths :
            Abs(PositionOf(p)) <= LimitOf(p) =>
                \A i \in 1..Len(OrdersOf(p)) :
                    /\ OrdersOf(p)[i].quantity <= LimitOf(p) - PositionOf(p)
                    /\ -OrdersOf(p)[i].quantity <= LimitOf(p) + PositionOf(p)

(* A Run2.0 tick one unit below the limit, past the throttling ratio, with *)
(* enough history to quote: the floor of 1 is the whole remaining capacity. *)
C2_Witness ==
    /\ engine = "Run2.0" /\ ran
    /\ \E p \in DOMAIN state.order_depths :
          /\ Len(historical_data[p].prices) > 5
          /\ PositionOf(p) = LimitOf(p) - 1
          /\ OrdersOf(p) # <<>>
          /\ OrdersOf(p)[1].quantity = 1

(* What a step must satisfy for an instrument whose book has an empty side. *)
OneSidedStep ==
    engine \in {"Run2.0", "run"} =>
        \A p \in DOMAIN state'.order_depths :
            OneSided(state'.order_depths[p]) =>
                /\ p \notin DOMAIN result'
                /\ Len(historical_data'[p].volumes)
                     = Len(Get(historical_data, p, initialize_product_state).volumes) + 1

(* C7: in Run2.0 and run.py a tick in which an instrument's book has an    *)
(* empty side returns no orders for it and appends exactly one entry to    *)
(* its volume history.                                                     *)
C7_OneSidedNoOrdersVolumeKept == [][OneSidedStep]_vars

(* A one-sided tick of run.py for a product that already has the history   *)
(* market making needs.                                                    *)
C7_Witness ==
    /\ engine = "run" /\ ran
    /\ \E p \in DOMAIN state.order_depths :
          /\ OneSided(state.order_depths[p])
          /\ Len(historical_data[p].prices) > 5
          /\ Len(historical_data[p].volumes) = Len(historical_data[p].prices) + 1
          /\ result = EmptyDict

(* A length some fixed maximum would have to keep the history under.       *)
(* A maximum length below the number of ticks a run can make.              *)
HistoryMaximum == MaxTicks - 1

(* C8: each of the three history sequences of Run2.0 stays at or below a   *)
(* fixed maximum length, however many ticks have run.                      *)
C8_HistoryBounded ==
    engine = "Run2.0" =>
        \A p \in DOMAIN historical_data :
            /\ Len(historical_data[p].prices) <= HistoryMaximum
            /\ Len(historical_data[p].spreads) <= HistoryMaximum
            /\ Len(historical_data[p].volumes) <= HistoryMaximum

-----------------------------------------------------------------------------
FracAdd(a, b) == Frac(a.n * b.d + b.n * a.d, a.d * b.d)

RECURSIVE WeightedSum(_, _, _)
WeightedSum(weights, values, S) ==
    IF S = {} THEN Frac(0, 1)
    ELSE LET c == CHOOSE c \in S : TRUE
         IN  FracAdd(Frac(weights[c] * values[c].n, values[c].d),
                     WeightedSum(weights, values, S \ {c}))

BasketsInSnapshot == DOMAIN basket_components \cap DOMAIN state.order_depths

ComponentsOf(b) == DOMAIN basket_components[b]

(* C4: in Run2.0, a basket in the snapshot with a component missing from   *)
(* the same snapshot gets no fair value that tick and no orders.           *)
C4_UnresolvedBasketUnset ==
    (engine = "Run2.0" /\ ran) =>
        \A b \in BasketsInSnapshot :
            ~(ComponentsOf(b) \subseteq DOMAIN state.order_depths) =>
                /\ b \notin DOMAIN fair_values
                /\ b \notin DOMAIN result

(* C5: in Run2.0, when every component of a basket in the snapshot is in   *)
(* the snapshot too, each component's fair value is this tick's VWAP, the  *)
(* basket's fair value is the multiplicity-weighted sum of them, and the   *)
(* basket's orders are the ones generated from that sum.                   *)
C5_BasketIsWeightedSum ==
    (engine = "Run2.0" /\ ran) =>
        \A b \in BasketsInSnapshot :
            ComponentsOf(b) \subseteq DOMAIN state.order_depths =>
                /\ \A c \in ComponentsOf(b) :
                      FracEq(fair_values[c], calculate_vwap(state.order_depths[c]))
                /\ FracEq(fair_values[b],
                          WeightedSum(basket_components[b], fair_values, ComponentsOf(b)))
                /\ OrdersOf(b) =
                      Run2_generate_orders(b, state.order_depths[b],
                          WeightedSum(basket_components[b], fair_values, ComponentsOf(b)),
                          PositionOf(b), LimitOf(b), historical_data[b], volatility[b])

(* PICNIC_BASKET1 traded on the weighted sum in a tick whose sum differs   *)
(* both from the basket's own VWAP and from what an earlier tick gave.     *)
C5_Witness ==
    /\ engine = "Run2.0" /\ ran
    /\ "PICNIC_BASKET1" \in DOMAIN state.order_depths
    /\ ComponentsOf("PICNIC_BASKET1") \subseteq DOMAIN state.order_depths
    /\ OrdersOf("PICNIC_BASKET1") # <<>>
    /\ ~FracEq(fair_values["PICNIC_BASKET1"],
               calculate_vwap(state.order_depths["PICNIC_BASKET1"]))
    /\ Len(historical_data["PICNIC_BASKET1"].volumes) > 1
    /\ Len(historical_data["CROISSANT"].prices) > 1
    /\ historical_data["CROISSANT"].prices[1] # historical_data["CROISSANT"].prices[2]

-----------------------------------------------------------------------------
(* The voucher engines.                                                     *)

SweepEngines == {"run5", "Run6"}

DecayEngines == {"Run4", "run3", "run5", "Run6"}

ListedVouchers == Vouchers \cap DOMAIN state.order_depths

(* C3: in run5 and Run6 every emitted voucher order is at a resting price   *)
(* level of the side it crosses, is no larger than the quantity resting at  *)
(* that level, and is no larger than the capacity left from the position    *)
(* the tick was given: limit - position for a buy, limit + position for a   *)
(* sell.                                                                    *)
C3_SweepOrderWithinLevelAndCapacity ==
    (ran /\ engine \in SweepEngines) =>
        \A v \in ListedVouchers : \A i \in 1..Len(OrdersOf(v)) :
            LET o == OrdersOf(v)[i]
                depth == state.order_depths[v]
            IN  IF o.quantity > 0
                THEN /\ o.price \in DOMAIN depth.sell_orders
                     /\ o.quantity <= -depth.sell_orders[o.price]
                     /\ o.quantity <= LimitOf(v) - PositionOf(v)
                ELSE /\ o.price \in DOMAIN depth.buy_orders
                     /\ -o.quantity <= depth.buy_orders[o.price]
                     /\ -o.quantity <= LimitOf(v) + PositionOf(v)

(* The decay factor an engine applies at a timestamp.                       *)
DecayOf(eng, timestamp) ==
    CASE eng = "Run4" -> Run4_decay(timestamp)
      [] eng = "run3" -> Run3_time_decay_factor(timestamp)
      [] eng \in SweepEngines -> ExpDecay(timestamp)
      [] eng = "Run7" -> Frac(Run7_time_value(Run7_days_left(timestamp)), 1000)

(* max(0, mid - strike) times the decay factor, for the most recent tick.   *)
DecayedIntrinsic(v) ==
    DecayFairValue(RockMid2(state), voucher_strikes[v], DecayOf(engine, state.timestamp))

HasOrder(v, o) == \E i \in 1..Len(OrdersOf(v)) : OrdersOf(v)[i] = o

ExactlyOneSideEmpty(order_depth) ==
    (DOMAIN order_depth.buy_orders = {}) # (DOMAIN order_depth.sell_orders = {})

RECURSIVE Gcd(_, _)
Gcd(a, b) == IF b = 0 THEN a ELSE Gcd(b, a % b)

(* A fraction with a positive denominator in lowest terms.                  *)
Reduced(f) == Frac(f.n \div Gcd(Abs(f.n), f.d), f.d \div Gcd(Abs(f.n), f.d))

(* fair = max(0, mid - strike) * decay + premium, for the voucher v of the  *)
(* most recent tick.                                                        *)
IsIntrinsicTimesDecayPlus(v, premium) ==
    LET decay == DecayOf(engine, state.timestamp)
        intrinsic2 == Intrinsic2(RockMid2(state), voucher_strikes[v])
        fair == voucher_fair[v]
    IN  /\ Reduced(fair)
             = Reduced(Frac(intrinsic2 * decay.n + 2 * premium * decay.d, 2 * decay.d))
        /\ RockMid2(state) <= 2 * voucher_strikes[v] => fair.n = premium * fair.d

C10_FloorAtExpiry ==
    (ran /\ engine \in {"Run4", "run3"} /\ state.timestamp >= 700000) =>
        \A v \in DOMAIN voucher_fair :
            5 * 2 * voucher_fair[v].n
                = Intrinsic2(RockMid2(state), voucher_strikes[v]) * voucher_fair[v].d

C10_Witness ==
    /\ ran
    /\ engine \in {"Run4", "run3"}
    /\ state.timestamp > 700000
    /\ \E v \in DOMAIN voucher_fair : voucher_fair[v].n > 0

(* VOLCANIC_ROCK has no mid-price in the most recent snapshot: no book, or  *)
(* no bids, or no asks.                                                     *)
RockUnpriceable ==
    \/ "VOLCANIC_ROCK" \notin DOMAIN state.order_depths
    \/ DOMAIN state.order_depths["VOLCANIC_ROCK"].buy_orders = {}
    \/ DOMAIN state.order_depths["VOLCANIC_ROCK"].sell_orders = {}

(* C11: in Run4, run3, Run6 and Run7, a tick in which VOLCANIC_ROCK has no  *)
(* mid-price values no voucher and returns no order for any voucher,        *)
(* whatever the vouchers' books and positions.                              *)
C11_UnpriceableRockNoVoucherOrders ==
    (ran /\ engine \in {"Run4", "run3", "Run6", "Run7"} /\ RockUnpriceable) =>
        /\ voucher_fair = EmptyDict
        /\ \A v \in Vouchers : v \notin DOMAIN result

C11_Witness ==
    /\ ran
    /\ engine \in {"Run4", "run3", "Run6", "Run7"}
    /\ RockUnpriceable
    /\ "VOLCANIC_ROCK" \in DOMAIN state.order_depths
    /\ \E v \in ListedVouchers :
         /\ DOMAIN state.order_depths[v].buy_orders # {}
         /\ DOMAIN state.order_depths[v].sell_orders # {}
         /\ Max(DOMAIN state.order_depths[v].buy_orders)
              > Min(DOMAIN state.order_depths[v].sell_orders)

-----------------------------------------------------------------------------
(* Inventory throttling in Run2.0.                                          *)

HalvedFloorOne(n) == IF n \div 2 > 1 THEN n \div 2 ELSE 1

(* The product p of the most recent Run2.0 tick is quoted: its book is      *)
(* two-sided and more than five mid-prices are stored.                      *)
Run2Quoted(p) ==
    /\ ran
    /\ engine = "Run2.0"
    /\ p \in DOMAIN state.order_depths
    /\ ~OneSided(state.order_depths[p])
    /\ Len(historical_data[p].prices) > 5

(* C12: in Run2.0, with position / limit > 0.6 the market-making buy (the   *)
(* first order of a quoted product with room to buy) has size at most       *)
(* max(1, floor(b / 2)), b = min(base_size, limit - position); with         *)
(* position / limit < -0.6 the market-making sell (the second order, after  *)
(* the market-making buy) has size at most max(1, floor(s / 2)),            *)
(* s = min(base_size, limit + position).                                    *)
C12_ThrottledQuoteHalved ==
    \A p \in DOMAIN state.order_depths :
        Run2Quoted(p) =>
            LET pos == PositionOf(p)
                limit == LimitOf(p)
                base_size == Run2_base_size(volatility[p])
                b == MinOf(base_size, limit - pos)
                s == MinOf(base_size, limit + pos)
                orders == OrdersOf(p)
            IN  /\ (10 * pos > 6 * limit /\ limit - pos > 0) =>
                      /\ Len(orders) >= 1
                      /\ orders[1].quantity > 0
                      /\ orders[1].quantity <= HalvedFloorOne(b)
                /\ (10 * pos < -6 * limit /\ limit + pos > 0) =>
                      /\ Len(orders) >= 2
                      /\ orders[2].quantity < 0
                      /\ -orders[2].quantity <= HalvedFloorOne(s)

C12_Witness ==
    \E p \in DOMAIN state.order_depths :
        /\ Run2Quoted(p)
        /\ 10 * PositionOf(p) > 6 * LimitOf(p)
        /\ MinOf(Run2_base_size(volatility[p]), LimitOf(p) - PositionOf(p)) >= 4
        /\ OrdersOf(p) # <<>>
        /\ OrdersOf(p)[1].quantity > 0

-----------------------------------------------------------------------------
(* The volume-weighted average price.                                       *)

TotalQuantity(order_depth) ==
    SumOver([p \in DOMAIN order_depth.buy_orders |-> Abs(order_depth.buy_orders[p])],
            DOMAIN order_depth.buy_orders)
    + SumOver([p \in DOMAIN order_depth.sell_orders |-> Abs(order_depth.sell_orders[p])],
              DOMAIN order_depth.sell_orders)

TotalValue(order_depth) ==
    SumOver([p \in DOMAIN order_depth.buy_orders |-> p * Abs(order_depth.buy_orders[p])],
            DOMAIN order_depth.buy_orders)
    + SumOver([p \in DOMAIN order_depth.sell_orders |-> p * Abs(order_depth.sell_orders[p])],
              DOMAIN order_depth.sell_orders)

(* C13: the fair value calculate_vwap gives a book (JAM, in Run2.0 and      *)
(* run.py) is the sum of price * |quantity| over all bid and ask levels     *)
(* divided by the sum of |quantity|, and is 0, with no division, when that  *)
(* total quantity is 0.                                                     *)
C13_VwapIsWeightedAverage ==
    (ran /\ engine \in {"Run2.0", "run"} /\ "JAM" \in DOMAIN state.order_depths) =>
        LET book == state.order_depths["JAM"]
            fair == fair_values["JAM"]
        IN  /\ fair.d # 0
            /\ IF TotalQuantity(book) = 0
               THEN fair.n = 0
               ELSE fair.n * TotalQuantity(book) = TotalValue(book) * fair.d

C13_Witness ==
    /\ ran
    /\ engine \in {"Run2.0", "run"}
    /\ "JAM" \in DOMAIN state.order_depths
    /\ state.order_depths["JAM"] = OrderDepth((10 :> 5) @@ (9 :> 3), 11 :> -4)
    /\ 12 * fair_values["JAM"].n = 121 * fair_values["JAM"].d

-----------------------------------------------------------------------------
(* Run7: the rolling standard deviation and the price log.                  *)

(* C14: no tick aborts and every division has a non-zero divisor; for Run7  *)
(* this requires the rolling standard deviation of the last 20 logged       *)
(* prices, by which the z-scores of a valued voucher are divided, to be     *)
(* non-zero whenever 20 prices are stored.                                  *)
C14_StdDevDivisorNonZero ==
    (ran /\ engine = "Run7") =>
        \A v \in DOMAIN voucher_fair :
            Len(history[v]) >= 20 => Variance1600(history[v]) # 0

(* The last n elements of s (all of s when it is shorter).                  *)
LastN(s, n) ==
    LET k == IF Len(s) < n THEN Len(s) ELSE n
    IN  [i \in 1..k |-> s[Len(s) - k + i]]

(* The products a Run7 tick on snapshot st logs, and the doubled price.     *)
LoggedIn(st) ==
    IF "VOLCANIC_ROCK" \notin DOMAIN st.order_depths
       \/ OneSided(st.order_depths["VOLCANIC_ROCK"])
    THEN {}
    ELSE {"VOLCANIC_ROCK"}
         \cup {v \in Vouchers \cap DOMAIN st.order_depths : ~OneSided(st.order_depths[v])}

LoggedPrice2(st, p) ==
    Max(DOMAIN st.order_depths[p].buy_orders) + Min(DOMAIN st.order_depths[p].sell_orders)

LogStep ==
    (engine = "Run7" /\ ran') =>
        /\ DOMAIN history' = DOMAIN history \cup LoggedIn(state')
        /\ \A p \in DOMAIN history' :
             /\ Len(history'[p]) <= 300
             /\ IF p \in LoggedIn(state')
                THEN history'[p]
                       = LastN(Append(Get(history, p, <<>>), LoggedPrice2(state', p)), 300)
                ELSE history'[p] = history[p]

(* C19: each Run7 log_price call leaves the product's history equal to the  *)
(* last 300 of the prices logged so far, in order, so at most 300 long; a   *)
(* product that is not logged keeps its history.                            *)
C19_LogKeepsLast300 == [][LogStep]_vars

C19_Witness ==
    /\ ran
    /\ engine = "Run7"
    /\ state.timestamp >= 30000
    /\ Len(history["VOLCANIC_ROCK"]) = 300
    /\ LongVoucher \in DOMAIN history
    /\ Len(history[LongVoucher]) < 300

-----------------------------------------------------------------------------
(* C15: in Run6 the conversion count returned by a tick is at most 10 in    *)
(* absolute value, a positive count is at most limit - position and a       *)
(* negative count is at most limit + position in magnitude for              *)
(* MAGNIFICENT_MACARONS, also when the buy and the sell condition both fire. *)
MacaronPosition == Get(state.position, "MAGNIFICENT_MACARONS", 0)

MacaronLimit == Voucher_position_limits["MAGNIFICENT_MACARONS"]

C15_ConversionsBounded ==
    (ran /\ engine = "Run6") =>
        /\ conversions <= 10
        /\ -conversions <= 10
        /\ conversions <= MacaronLimit - MacaronPosition
        /\ -conversions <= MacaronLimit + MacaronPosition

(* Both conditions fire (book crossed by more than 4.2, position strictly   *)
(* inside the limits) and the two volumes differ.                           *)
C15_Witness ==
    /\ ran /\ engine = "Run6"
    /\ "MAGNIFICENT_MACARONS" \in DOMAIN state.order_depths
    /\ LET d == state.order_depths["MAGNIFICENT_MACARONS"]
       IN  /\ DOMAIN d.buy_orders # {} /\ DOMAIN d.sell_orders # {}
           /\ Max(DOMAIN d.buy_orders) > Min(DOMAIN d.sell_orders) + 4
    /\ MacaronPosition < MacaronLimit /\ MacaronPosition > -MacaronLimit
    /\ conversions # 0

-----------------------------------------------------------------------------
(* Repeated invocation: one Trader is called again and again with the order *)
(* books and positions of its first tick.                                   *)
Repeats(st) ==
    ran => st.order_depths = state.order_depths /\ st.position = state.position

InitRepeat == engine \in {"Run2.0", "run8"} /\ Fresh

NextRepeat ==
    \/ /\ engine = "Run2.0" /\ TicksLeft
       /\ \E st \in Run2StatesMM : Repeats(st) /\ Run2Tick(st)
    \/ \E st \in Run8StatesMM : Repeats(st) /\ Run8Tick(st)

SpecRepeat == InitRepeat /\ [][NextRepeat]_vars

(* C16: a tick whose order books and positions equal those of the tick      *)
(* before it leaves the fixed-value and VWAP fair values of Run2.0          *)
(* unchanged, and run8 returns the same order mapping again.                *)
RepeatedTick ==
    ran /\ state'.order_depths = state.order_depths /\ state'.position = state.position

RepeatStep ==
    RepeatedTick =>
        /\ engine = "run8" => result' = result
        /\ engine = "Run2.0" =>
              \A p \in DOMAIN state.order_depths \ {"BANANAS"} :
                  /\ p \in DOMAIN fair_values /\ p \in DOMAIN fair_values'
                  /\ fair_values'[p] = fair_values[p]

C16_RepeatedTickSameValues == [][RepeatStep]_vars

(* Run2.0 has seen the same two-sided book of a VWAP-valued product twice.  *)
C16_Witness ==
    /\ ran /\ engine = "Run2.0"
    /\ "DJEMBE" \in DOMAIN state.order_depths
    /\ Len(historical_data["DJEMBE"].volumes) >= 2
    /\ Len(historical_data["DJEMBE"].prices) = Len(historical_data["DJEMBE"].volumes)
    /\ fair_values["DJEMBE"] = calculate_vwap(state.order_depths["DJEMBE"])

-----------------------------------------------------------------------------
(* What a Run2.0 tick does to the history of an instrument of its snapshot. *)
HistoryStep ==
    engine = "Run2.0" =>
        \A p \in DOMAIN state'.order_depths :
            LET old == Get(historical_data, p, initialize_product_state)
                new == historical_data'[p]
                depth == state'.order_depths[p]
            IN  /\ new.volumes = Append(old.volumes, TotalQuantity(depth))
                /\ IF OneSided(depth)
                   THEN /\ new.prices = old.prices
                        /\ new.spreads = old.spreads
                        /\ volatility'[p] = Get(volatility, p, DefaultVolatility)
                   ELSE /\ new.prices = Append(old.prices,
                                Max(DOMAIN depth.buy_orders) + Min(DOMAIN depth.sell_orders))
                        /\ new.spreads = Append(old.spreads,
                                Min(DOMAIN depth.sell_orders) - Max(DOMAIN depth.buy_orders))

HistoryLengths ==
    engine = "Run2.0" =>
        \A p \in DOMAIN historical_data :
            /\ Len(historical_data[p].prices) = Len(historical_data[p].spreads)
            /\ Len(historical_data[p].prices) <= Len(historical_data[p].volumes)

(* C18: in Run2.0 a two-sided tick appends one mid-price (stored doubled:   *)
(* best_bid + best_ask) and one spread best_ask - best_bid, a tick with an  *)
(* empty side leaves prices, spreads and the volatility unchanged, every    *)
(* tick appends one volume equal to the sum of the absolute quantities of   *)
(* all levels, so that prices and spreads have one entry per two-sided tick *)
(* and volumes one entry per tick.                                          *)
C18_HistoryAppends == []HistoryLengths /\ [][HistoryStep]_vars

(* An instrument after two-sided ticks followed by a one-sided tick.        *)
C18_Witness ==
    /\ ran /\ engine = "Run2.0"
    /\ \E p \in DOMAIN state.order_depths :
          /\ OneSided(state.order_depths[p])
          /\ Len(historical_data[p].prices) >= 2
          /\ Len(historical_data[p].volumes) > Len(historical_data[p].prices) + 1
          /\ volatility[p] # DefaultVolatility

-----------------------------------------------------------------------------
(* C20: in Run2.0, whenever generate_basket_arbitrage_orders evaluates a    *)
(* basket (the basket and all its components have a stored fair value), the *)
(* basket's fair value is exactly the multiplicity-weighted sum of the      *)
(* component fair values, neither the over-priced nor the under-priced      *)
(* branch is taken, the function returns an empty mapping and the tick's    *)
(* order mapping is the output of generate_orders alone.                    *)
C20_BasketArbitrageNeverFires ==
    (engine = "Run2.0" /\ ran) =>
        /\ \A b \in DOMAIN basket_components :
              basket_arbitrage_branch(fair_values, b) # "not evaluated" =>
                  /\ FracEq(fair_values[b],
                            WeightedSum(basket_components[b], fair_values, ComponentsOf(b)))
                  /\ basket_arbitrage_branch(fair_values, b) = "none"
        /\ generate_basket_arbitrage_orders(fair_values) = EmptyDict
        /\ result = NonEmptyOrders(Run2_all_orders(state, fair_values, historical_data,
                                                   volatility))

(* Both baskets are evaluated in a tick whose snapshot lists the baskets    *)
(* alone: the components' fair values are those of an earlier tick.         *)
C20_Witness ==
    /\ engine = "Run2.0" /\ ran
    /\ DOMAIN state.order_depths = DOMAIN basket_components
    /\ \A b \in DOMAIN basket_components :
          /\ basket_arbitrage_branch(fair_values, b) = "none"
          /\ ~FracEq(fair_values[b], calculate_vwap(state.order_depths[b]))
    /\ result # EmptyDict

-----------------------------------------------------------------------------
(* Trader.run of Run2.0.py statement by statement: each action is one of    *)
(* the statements (a whole loop, or a call) of lines 28-75, and phase names *)
(* the last statement that has completed.                                   *)
MaxPhaseTicks == 2

(* A succession in which the baskets are valued before the single           *)
(* instruments.                                                             *)
Run2_next_phase_baskets_first(p) ==
    CASE p = "Idle" -> "HistoryUpdated"
      [] p = "HistoryUpdated" -> "CompositesValued"
      [] p = "CompositesValued" -> "SinglesValued"
      [] p = "SinglesValued" -> "OrdersGenerated"
      [] p = "OrdersGenerated" -> "ArbitrageGenerated"
      [] p = "ArbitrageGenerated" -> "Merged"
      [] p = "Merged" -> "Idle"

(* The statement order of run(): lines 34, 37-46, 49, 52-65, 68, 69-73, 75. *)
Run2_next_phase(p) ==
    CASE p = "Idle" -> "HistoryUpdated"
      [] p = "HistoryUpdated" -> "SinglesValued"
      [] p = "SinglesValued" -> "CompositesValued"
      [] p = "CompositesValued" -> "OrdersGenerated"
      [] p = "OrdersGenerated" -> "ArbitrageGenerated"
      [] p = "ArbitrageGenerated" -> "Merged"
      [] p = "Merged" -> "Idle"

PhaseTicksLeft ==
    \A p \in DOMAIN historical_data : Len(historical_data[p].volumes) < MaxPhaseTicks

(* Lines 29-34: the call starts (result = {}) and update_historical_data.   *)
Run2_phase_history(st) ==
    /\ engine = "Run2.0" /\ phase = "Idle"
    /\ Run2_next_phase(phase) = "HistoryUpdated"
    /\ \E hd1 \in {update_historical_data(historical_data, st)} :
       \E vol1 \in VolatilityChoices(volatility, hd1, st) :
          /\ historical_data' = hd1
          /\ volatility' = vol1
    /\ state' = st
    /\ result' = EmptyDict
    /\ conversions' = 0
    /\ basket_arb_orders' = EmptyDict
    /\ phase' = "HistoryUpdated"
    /\ UNCHANGED <<engine, fair_values, history, pnl, voucher_fair, ran>>

(* Lines 37-46: the loop over the snapshot that values each instrument.     *)
Run2_phase_singles ==
    /\ engine = "Run2.0" /\ phase # "Idle"
    /\ Run2_next_phase(phase) = "SinglesValued"
    /\ \E bananas \in BananasChoices(Run2_bananas_outcomes(
                           Get(historical_data, "BANANAS", initialize_product_state),
                           Get(state.order_depths, "BANANAS", OrderDepth(EmptyDict, EmptyDict))),
                       state) :
          fair_values' = Run2_single_fair_values(fair_values, state, bananas)
    /\ phase' = "SinglesValued"
    /\ UNCHANGED <<engine, historical_data, volatility, history, pnl, state, result,
                   conversions, voucher_fair, ran, basket_arb_orders>>

(* Line 49: calculate_basket_fair_values.                                   *)
Run2_phase_composites ==
    /\ engine = "Run2.0" /\ phase # "Idle"
    /\ Run2_next_phase(phase) = "CompositesValued"
    /\ fair_values' = calculate_basket_fair_values(fair_values)
    /\ phase' = "CompositesValued"
    /\ UNCHANGED <<engine, historical_data, volatility, history, pnl, state, result,
                   conversions, voucher_fair, ran, basket_arb_orders>>

(* Lines 52-65: the loop over the snapshot that generates the orders.       *)
Run2_phase_orders ==
    /\ engine = "Run2.0" /\ phase # "Idle"
    /\ Run2_next_phase(phase) = "OrdersGenerated"
    /\ DOMAIN state.order_depths \subseteq DOMAIN fair_values
    /\ result' = NonEmptyOrders(Run2_all_orders(state, fair_values, historical_data,
                                                volatility))
    /\ phase' = "OrdersGenerated"
    /\ UNCHANGED <<engine, historical_data, volatility, fair_values, history, pnl, state,
                   conversions, voucher_fair, ran, basket_arb_orders>>

(* Line 68: generate_basket_arbitrage_orders.                               *)
Run2_phase_arbitrage ==
    /\ engine = "Run2.0" /\ phase # "Idle"
    /\ Run2_next_phase(phase) = "ArbitrageGenerated"
    /\ basket_arb_orders' = generate_basket_arbitrage_orders(fair_values)
    /\ phase' = "ArbitrageGenerated"
    /\ UNCHANGED <<engine, historical_data, volatility, fair_values, history, pnl, state,
                   result, conversions, voucher_fair, ran>>

(* Lines 69-73: the basket-arbitrage lists are merged into result.          *)
Run2_phase_merge ==
    /\ engine = "Run2.0" /\ phase # "Idle"
    /\ Run2_next_phase(phase) = "Merged"
    /\ result' = MergeOrders(result, basket_arb_orders)
    /\ phase' = "Merged"
    /\ UNCHANGED <<engine, historical_data, volatility, fair_values, history, pnl, state,
                   conversions, voucher_fair, ran, basket_arb_orders>>

(* Line 75: return result, conversions, trader_data.                        *)
Run2_phase_return ==
    /\ engine = "Run2.0" /\ phase # "Idle"
    /\ Run2_next_phase(phase) = "Idle"
    /\ ran' = TRUE
    /\ voucher_fair' = EmptyDict
    /\ basket_arb_orders' = EmptyDict
    /\ phase' = "Idle"
    /\ UNCHANGED <<engine, historical_data, volatility, fair_values, history, pnl, state,
                   result, conversions>>

InitPhases == engine = "Run2.0" /\ Fresh

NextPhases ==
    \/ PhaseTicksLeft /\ \E st \in BasketStates : Run2_phase_history(st)
    \/ Run2_phase_singles
    \/ Run2_phase_composites
    \/ Run2_phase_orders
    \/ Run2_phase_arbitrage
    \/ Run2_phase_merge
    \/ Run2_phase_return

SpecPhases == InitPhases /\ [][NextPhases]_vars

(* The phases of a tick in the order the claim gives them.                  *)
PhaseOrder ==
    <<"Idle", "HistoryUpdated", "SinglesValued", "CompositesValued", "OrdersGenerated",
      "ArbitrageGenerated", "Merged">>

Follows(p, q) ==
    \E i \in 1..Len(PhaseOrder) : PhaseOrder[i] = p /\ PhaseOrder[(i % Len(PhaseOrder)) + 1] = q

PhaseStep ==
    /\ Follows(phase, phase')
    /\ (historical_data' # historical_data \/ volatility' # volatility) =>
           phase' = "HistoryUpdated"
    /\ phase' = "SinglesValued" =>
           /\ \A p \in DOMAIN state.order_depths :
                 p \in DOMAIN historical_data /\ historical_data[p].volumes # <<>>
           /\ DOMAIN state.order_depths \subseteq DOMAIN fair_values'
    /\ fair_values' # fair_values => phase' \in {"SinglesValued", "CompositesValued"}
    /\ phase' = "CompositesValued" =>
           \A p \in DOMAIN fair_values \ DOMAIN basket_components :
               p \in DOMAIN fair_values' /\ fair_values'[p] = fair_values[p]
    /\ result' # result => phase' \in {"HistoryUpdated", "OrdersGenerated", "Merged"}
    /\ phase' = "HistoryUpdated" => result' = EmptyDict
    /\ basket_arb_orders' # basket_arb_orders => phase' \in {"ArbitrageGenerated", "Idle"}

(* C17: within a tick of Run2.0 the phases follow one another in the order  *)
(* history update, single-instrument fair values, basket fair values, order *)
(* generation, basket-arbitrage generation, merge, and back to idle, none   *)
(* revisited: histories change only in the first phase, when it starts      *)
(* every instrument of the snapshot has its history updated, fair values    *)
(* change only in the two valuation phases (the basket phase leaving the    *)
(* single-instrument values alone), and orders appear only after them.      *)
C17_PhasesInOrder == [][PhaseStep]_vars

(* A second tick has reached the merge with a basket valued and orders out. *)
C17_Witness ==
    /\ engine = "Run2.0" /\ ran /\ phase = "Merged"
    /\ "PICNIC_BASKET1" \in DOMAIN fair_values
    /\ result # EmptyDict

-----------------------------------------------------------------------------
MacaronTwoSided ==
    /\ "MAGNIFICENT_MACARONS" \in DOMAIN state.order_depths
    /\ DOMAIN state.order_depths["MAGNIFICENT_MACARONS"].buy_orders # {}
    /\ DOMAIN state.order_depths["MAGNIFICENT_MACARONS"].sell_orders # {}

MacaronBestBid == Max(DOMAIN state.order_depths["MAGNIFICENT_MACARONS"].buy_orders)

MacaronBestAsk == Min(DOMAIN state.order_depths["MAGNIFICENT_MACARONS"].sell_orders)

(* C21: in Run6 a tick whose MAGNIFICENT_MACARONS book is not crossed       *)
(* (best bid <= best ask) returns the conversion count 0; a non-zero count  *)
(* needs the best bid to exceed the best ask by more than 4.                *)
C21_UncrossedBookNoConversion ==
    (ran /\ engine = "Run6" /\ MacaronTwoSided) =>
        /\ MacaronBestBid <= MacaronBestAsk => conversions = 0
        /\ conversions # 0 => MacaronBestBid > MacaronBestAsk + 4

(* An uncrossed two-sided book met with room to convert in both directions. *)
C21_Witness ==
    /\ ran /\ engine = "Run6" /\ MacaronTwoSided
    /\ MacaronBestBid < MacaronBestAsk
    /\ MacaronPosition < MacaronLimit /\ MacaronPosition > -MacaronLimit
    /\ conversions = 0
====
